---- MODULE Spec2Model ----
(***************************************************************************)
(* Image transform and codec engine of the photo editor: the GB7 codec     *)
(* (encodeGB7 / parseGB7File), the resampler (resizeImage), the tone-curve *)
(* tables (createLookupTable), the spatial filters (applyKernelFilter,     *)
(* applyMedianFilter, applyLaplacianFilter, applyGaussianBlur), the filter *)
(* worker with its pool and the handlers that use it, and the layer        *)
(* compositor (blendLayers, blendColors), and the colour-space conversions *)
(* (rgbToXYZ, xyzToRGB).                                                   *)
(*                                                                         *)
(* A pixel buffer (ImageData) is a record [width, height, data] whose data *)
(* is the flat RGBA byte sequence; TLA+ sequences are 1-based, so the byte *)
(* the code reads at data[k] is data[k + 1] here.                          *)
(*                                                                         *)
(* JavaScript numbers are IEEE-754 doubles.  Where the code only forms     *)
(* integers or exactly representable values the model uses integer         *)
(* arithmetic; where a rounding of an inexact double decides the result    *)
(* (the luma sum, the curve slope) the model computes the exact rational   *)
(* value and takes from a table the arguments at which the double lands    *)
(* just below an exact half and Math.round therefore rounds down.          *)
(***************************************************************************)
EXTENDS Integers, Sequences, FiniteSets, TLC

VARIABLES
    pc,          \* the operation about to run: "encode", "reopen", "parse", "resize",
                 \* "curves", "filter", or "done"
    imageData,   \* the pixel buffer handed to encodeGB7 / resizeImage / a filter
    encoded,     \* outcome of encodeGB7(imageData)
    file,        \* the byte stream handed to parseGB7File
    parsed,      \* outcome of the promise returned by parseGB7File(file)
    resized,     \* outcome of resizeImage(imageData, ...)
    point1,      \* first curve point given to createLookupTable
    point2,      \* second curve point given to createLookupTable
    lut,         \* outcome of createLookupTable(point1, point2)
    filtered,    \* the filter (or padImageData) that ran on imageData, its
                 \* arguments and its outcome
    message,     \* the FilterWorkerMessage a handler builds for imageData
    response,    \* the FilterWorkerResponse the worker posts for message
    fallback,    \* outcome of the handler's in-process call for message
    layer,       \* the active layer's image, its pixel data abstracted
    calls,       \* the invocations of the filter handlers, by number
    workers,     \* FilterWorkerPool.workers
    busyWorkers, \* FilterWorkerPool.busyWorkers
    maxWorkers,  \* FilterWorkerPool.maxWorkers
    inbox,       \* per worker, the messages posted to it and not yet handled
    outbox,      \* per worker, the responses it posted, not yet dispatched
    listeners,   \* per worker, the invocations whose 'message' listener is registered
    errors,      \* the onError calls made so far
    layers,      \* the layer list handed to blendLayers
    canvas,      \* the width and height handed to blendLayers
    blended,     \* outcome of blendLayers(layers, canvas.width, canvas.height)
    colors,      \* the arguments of a call of blendColors: base and overlay
                 \* colour [r, g, b, a], mode, and opacity in percent
    mixed,       \* outcome of that call
    rgbColor,    \* the RGB colour handed to rgbToXYZ
    xyzColor,    \* the XYZ colour handed to xyzToRGB
    rgbBack,     \* outcome of xyzToRGB(xyzColor)
    heap,        \* the pixel and byte buffers allocated so far, by reference
    transform,   \* the call of a transform: its name, the references of the
                 \* buffers it is given and its other arguments
    returned,    \* outcome of that call: the reference returned
    editorLayers,   \* EditorProvider's layers state, as the list of layer ids
    activeLayerId,  \* EditorProvider's activeLayerId state
    queuedLayers,   \* setLayers updaters queued since the last render
    queuedActive,   \* setActiveLayerId values queued since the last render
    nextLayerId     \* the id the next addLayer call generates

workerVars == <<message, response, fallback>>

handlerVars == <<layer, calls, workers, busyWorkers, maxWorkers, inbox, outbox, listeners, errors>>

blendVars == <<layers, canvas, blended>>

colorVars == <<colors, mixed>>

\* the state of the components that follow the compositor
spaceVars == <<rgbColor, xyzColor, rgbBack>>

heapVars == <<heap, transform, returned>>

editorVars == <<editorLayers, activeLayerId, queuedLayers, queuedActive, nextLayerId>>

lateVars == <<heapVars, editorVars>>

moreVars == <<colorVars, spaceVars, lateVars>>

\* the state of the components up to the compositor
coreVars == <<imageData, encoded, file, parsed, resized, point1, point2, lut, filtered,
              workerVars, handlerVars, blendVars>>

vars == <<pc, imageData, encoded, file, parsed, resized, point1, point2, lut, filtered,
          workerVars, handlerVars, blendVars, moreVars>>

----------------------------------------------------------------------------
(* Bounds of the explored inputs *)

\* largest width*height of the exhaustively enumerated pixel buffers and files
MaxPixels == 4

\* largest width and height of the ramp buffers
MaxDim == 3

----------------------------------------------------------------------------
(* Arithmetic helpers *)

Min(a, b) == IF a <= b THEN a ELSE b

Max(a, b) == IF a >= b THEN a ELSE b

\* Math.floor(n / d) for integers n and d > 0
Floor(n, d) == n \div d

\* Math.round(n / d) for integers n and d > 0 when n/d is computed exactly:
\* Math.round rounds halves towards +Infinity
Round(n, d) == (2 * n + d) \div (2 * d)

\* the value no outcome has before its operation ran, and the value of an
\* input that the explored operation does not take
None == [status |-> "none"]

NoImage == [width |-> 0, height |-> 0, data |-> <<>>]

\* null, where a layer id is expected
NullId == 0

NoPoint == [input |-> 0, output |-> 0]

Returned(v) == [status |-> "returned", value |-> v]

Thrown(e) == [status |-> "thrown", error |-> e]

----------------------------------------------------------------------------
(* Pixel buffers *)

\* RGBA pixels used to fill the enumerated buffers: black and white opaque,
\* two colours whose luma sum is an exact half (one where the double sum is
\* below the half, one where it is not) with alpha on both sides of the
\* threshold, and a fully transparent colour
Palette ==
    { <<0, 0, 0, 255>>, <<255, 255, 255, 255>>, <<0, 14, 76, 128>>,
      <<0, 41, 44, 127>>, <<255, 0, 0, 0>> }

Shapes(n) == { s \in (1..n) \X (1..n) : s[1] * s[2] <= n }

\* the flat RGBA byte sequence of a sequence of pixels
Flatten(px) == [k \in 1..(4 * Len(px)) |-> px[((k - 1) \div 4) + 1][((k - 1) % 4) + 1]]

MakeImage(w, h, px) == [width |-> w, height |-> h, data |-> Flatten(px)]

\* every buffer of at most n pixels over the palette
PaletteImages(n) ==
    UNION { { MakeImage(s[1], s[2], px) : px \in [1..(s[1] * s[2]) -> Palette] } :
            s \in Shapes(n) }

\* opaque gray buffers: pixel i has R = G = B = (g0 + step i) mod 256, alpha 255
GrayImage(w, h, g0, step) ==
    MakeImage(w, h, [i \in 1..(w * h) |->
        LET g == (g0 + step * (i - 1)) % 256 IN <<g, g, g, 255>>])

\* every gray level 0..255, uniform and as a ramp, in every shape
GrayImages(n) ==
    { GrayImage(s[1], s[2], g0, step) : s \in Shapes(n), g0 \in 0..255, step \in {0, 37} }

\* one buffer of w x h pixels, every byte v (used for the large sizes)
UniformImage(w, h, v) == [width |-> w, height |-> h, data |-> [k \in 1..(4 * w * h) |-> v]]

\* pixel (x, y) channel c (0-based, as in the code) of a buffer
Channel(img, x, y, c) == img.data[(y * img.width + x) * 4 + c + 1]

PixelCount(img) == img.width * img.height

WellFormed(img) ==
    /\ img.width >= 1 /\ img.height >= 1
    /\ Len(img.data) = 4 * img.width * img.height
    /\ \A k \in 1..Len(img.data) : img.data[k] \in 0..255

----------------------------------------------------------------------------
(* GB7 codec: encodeGB7 *)

GB7_SIGNATURE == <<71, 66, 55, 29>>     \* 0x47 0x42 0x37 0x1D

GB7_VERSION == 1

HEADER_SIZE == 12

MAX_DIMENSION == 65535

ALPHA_THRESHOLD == 128

\* The (r, g, b) in 0..255 for which 0.2126 r + 0.7152 g + 0.0722 b is exactly
\* a half-integer and the double sum, added left to right, is below it, so
\* that Math.round yields the lower integer.  At every other (r, g, b) the
\* double sum rounds as the exact value does.
LumaBelowTie == {
    <<0,14,76>>, <<0,68,12>>, <<0,150,100>>, <<0,204,36>>, <<1,97,165>>, <<1,124,133>>, <<1,151,101>>,
    <<1,178,69>>, <<2,70,14>>, <<2,179,70>>, <<2,180,254>>, <<2,206,38>>, <<2,207,222>>, <<2,233,6>>,
    <<2,234,190>>, <<3,71,15>>, <<3,126,135>>, <<3,153,103>>, <<3,207,39>>, <<3,235,191>>, <<4,100,168>>,
    <<4,127,136>>, <<4,154,104>>, <<4,235,8>>, <<5,182,73>>, <<5,209,41>>, <<5,210,225>>, <<5,236,9>>,
    <<5,237,193>>, <<6,47,50>>, <<6,74,18>>, <<6,75,202>>, <<6,102,170>>, <<6,129,138>>, <<6,156,106>>,
    <<6,210,42>>, <<6,238,194>>, <<7,49,235>>, <<7,75,19>>, <<7,157,107>>, <<7,238,11>>, <<8,49,52>>,
    <<8,185,76>>, <<8,213,228>>, <<8,239,12>>, <<8,240,196>>, <<9,105,173>>, <<9,132,141>>, <<9,159,109>>,
    <<9,213,45>>, <<9,241,197>>, <<10,51,54>>, <<10,52,238>>, <<10,78,22>>, <<10,133,142>>, <<10,241,14>>,
    <<12,80,24>>, <<12,108,176>>, <<12,135,144>>, <<12,162,112>>, <<12,216,48>>, <<12,244,200>>, <<13,27,89>>,
    <<13,136,145>>, <<13,190,81>>, <<13,244,17>>, <<14,28,90>>, <<14,56,242>>, <<14,82,26>>, <<14,164,114>>,
    <<15,56,59>>, <<15,138,147>>, <<15,219,51>>, <<15,247,203>>, <<16,85,212>>, <<16,112,180>>, <<16,193,84>>,
    <<16,221,236>>, <<16,247,20>>, <<17,59,245>>, <<17,140,149>>, <<17,167,117>>, <<17,249,205>>, <<18,59,62>>,
    <<18,222,54>>, <<18,249,22>>, <<18,250,206>>, <<19,115,183>>, <<19,196,87>>, <<19,224,239>>, <<19,250,23>>,
    <<20,115,0>>, <<20,143,152>>, <<20,170,120>>, <<20,252,208>>, <<21,62,65>>, <<21,63,249>>, <<21,89,33>>,
    <<21,225,57>>, <<21,252,25>>, <<21,253,209>>, <<22,63,66>>, <<22,91,218>>, <<22,118,186>>, <<22,199,90>>,
    <<22,227,242>>, <<22,253,26>>, <<23,91,35>>, <<23,118,3>>, <<23,119,187>>, <<23,146,155>>, <<23,173,123>>,
    <<23,255,211>>, <<24,119,4>>, <<24,147,156>>, <<24,174,124>>, <<24,228,60>>, <<24,255,28>>, <<25,66,69>>,
    <<25,94,221>>, <<25,121,189>>, <<25,202,93>>, <<25,230,245>>, <<27,41,103>>, <<27,68,71>>, <<27,95,39>>,
    <<27,122,7>>, <<27,150,159>>, <<27,177,127>>, <<27,204,95>>, <<27,231,63>>, <<28,69,72>>, <<28,97,224>>,
    <<28,205,96>>, <<28,233,248>>, <<29,70,73>>, <<30,98,42>>, <<30,125,10>>, <<30,126,194>>, <<30,153,162>>,
    <<30,180,130>>, <<31,100,227>>, <<31,126,11>>, <<31,208,99>>, <<31,235,67>>, <<31,236,251>>, <<33,47,109>>,
    <<33,101,45>>, <<33,102,229>>, <<33,128,13>>, <<33,129,197>>, <<34,129,14>>, <<34,157,166>>, <<34,211,102>>,
    <<34,238,70>>, <<34,239,254>>, <<36,104,48>>, <<36,105,232>>, <<36,131,16>>, <<36,132,200>>, <<37,51,113>>,
    <<37,214,105>>, <<37,241,73>>, <<38,133,18>>, <<39,80,83>>, <<39,107,51>>, <<39,108,235>>, <<39,134,19>>,
    <<39,135,203>>, <<40,54,116>>, <<40,190,140>>, <<40,217,108>>, <<40,244,76>>, <<41,136,21>>, <<42,83,86>>,
    <<42,110,54>>, <<42,111,238>>, <<42,138,206>>, <<43,57,119>>, <<43,193,143>>, <<43,220,111>>, <<43,247,79>>,
    <<44,112,56>>, <<44,139,24>>, <<44,140,208>>, <<44,221,112>>, <<45,86,89>>, <<45,114,241>>, <<45,249,81>>,
    <<46,5,2>>, <<46,169,178>>, <<46,196,146>>, <<46,223,114>>, <<46,250,82>>, <<47,115,59>>, <<47,142,27>>,
    <<47,143,211>>, <<47,224,115>>, <<48,35,156>>, <<48,89,92>>, <<48,252,84>>, <<49,199,149>>, <<49,226,117>>,
    <<50,91,94>>, <<50,118,62>>, <<50,119,246>>, <<50,145,30>>, <<50,146,214>>, <<50,227,118>>, <<51,255,87>>,
    <<52,147,32>>, <<53,121,65>>, <<53,230,121>>, <<54,95,98>>, <<54,176,2>>, <<54,204,154>>, <<55,150,35>>,
    <<55,178,187>>, <<56,124,68>>, <<56,179,188>>, <<56,233,124>>, <<57,98,101>>, <<57,126,253>>, <<57,179,5>>,
    <<57,207,157>>, <<58,17,14>>, <<58,45,166>>, <<58,126,70>>, <<58,153,38>>, <<59,182,191>>, <<59,236,127>>,
    <<60,101,104>>, <<60,182,8>>, <<60,210,160>>, <<61,20,17>>, <<61,102,105>>, <<61,129,73>>, <<61,156,41>>,
    <<61,157,225>>, <<62,185,194>>, <<62,239,130>>, <<63,104,107>>, <<63,185,11>>, <<63,213,163>>, <<64,51,172>>,
    <<64,105,108>>, <<65,133,77>>, <<65,160,45>>, <<65,188,197>>, <<65,242,133>>, <<66,80,142>>, <<66,188,14>>,
    <<66,216,166>>, <<67,190,199>>, <<68,82,144>>, <<68,136,80>>, <<68,190,16>>, <<68,245,136>>, <<69,83,145>>,
    <<69,191,17>>, <<69,219,169>>, <<70,193,202>>, <<71,112,115>>, <<71,139,83>>, <<72,140,84>>, <<72,194,20>>,
    <<72,222,172>>, <<72,249,140>>, <<73,33,213>>, <<73,196,205>>, <<74,33,30>>, <<74,115,118>>, <<74,142,86>>,
    <<75,34,31>>, <<75,143,87>>, <<75,171,239>>, <<75,197,23>>, <<75,225,175>>, <<75,252,143>>, <<76,199,208>>,
    <<77,63,1>>, <<77,91,153>>, <<77,118,121>>, <<77,145,89>>, <<78,64,2>>, <<78,174,242>>, <<78,200,26>>,
    <<78,228,178>>, <<78,255,146>>, <<79,39,219>>, <<79,202,211>>, <<80,66,4>>, <<80,94,156>>, <<81,40,37>>,
    <<81,68,189>>, <<81,177,245>>, <<81,203,29>>, <<81,204,213>>, <<81,231,181>>, <<82,178,246>>, <<82,204,30>>,
    <<82,205,214>>, <<83,69,7>>, <<83,97,159>>, <<83,178,63>>, <<84,43,40>>, <<84,179,64>>, <<84,180,248>>,
    <<84,206,32>>, <<84,207,216>>, <<84,233,0>>, <<84,234,184>>, <<85,126,129>>, <<85,207,33>>, <<85,235,185>>,
    <<86,72,10>>, <<86,100,162>>, <<86,235,2>>, <<87,155,99>>, <<87,183,251>>, <<87,236,3>>, <<88,102,164>>,
    <<88,129,132>>, <<88,210,36>>, <<88,238,188>>, <<89,75,13>>, <<89,238,5>>, <<90,49,46>>, <<90,185,70>>,
    <<90,212,38>>, <<90,213,222>>, <<90,240,190>>, <<91,132,135>>, <<91,213,39>>, <<91,241,191>>, <<92,51,48>>,
    <<92,78,16>>, <<92,133,136>>, <<92,241,8>>, <<93,52,49>>, <<94,135,138>>, <<94,216,42>>, <<94,244,194>>,
    <<95,81,19>>, <<95,136,139>>, <<95,190,75>>, <<95,244,11>>, <<96,28,84>>, <<96,55,52>>, <<96,164,108>>,
    <<97,219,45>>, <<97,247,197>>, <<98,112,174>>, <<98,193,78>>, <<98,221,230>>, <<98,247,14>>, <<99,31,87>>,
    <<99,140,143>>, <<99,167,111>>, <<99,249,199>>, <<100,222,48>>, <<100,249,16>>, <<100,250,200>>, <<101,61,241>>,
    <<101,115,177>>, <<101,196,81>>, <<101,224,233>>, <<101,250,17>>, <<102,34,90>>, <<102,170,114>>, <<102,252,202>>,
    <<103,89,27>>, <<103,171,115>>, <<103,225,51>>, <<103,252,19>>, <<103,253,203>>, <<104,63,60>>, <<104,91,212>>,
    <<104,118,180>>, <<104,199,84>>, <<104,227,236>>, <<104,253,20>>, <<105,37,93>>, <<105,91,29>>, <<105,119,181>>,
    <<105,173,117>>, <<105,255,205>>, <<106,174,118>>, <<106,255,22>>, <<107,94,215>>, <<107,121,183>>, <<107,202,87>>,
    <<107,230,239>>, <<108,176,120>>, <<109,68,65>>, <<109,95,33>>, <<109,122,1>>, <<109,204,89>>, <<109,231,57>>,
    <<110,70,250>>, <<110,124,186>>, <<110,205,90>>, <<110,233,242>>, <<111,179,123>>, <<112,71,68>>, <<112,98,36>>,
    <<112,125,4>>, <<112,126,188>>, <<112,180,124>>, <<113,73,253>>, <<113,126,5>>, <<113,208,93>>, <<113,235,61>>,
    <<113,236,245>>, <<114,19,134>>, <<115,101,39>>, <<115,102,223>>, <<115,128,7>>, <<116,129,8>>, <<116,157,160>>,
    <<116,211,96>>, <<116,238,64>>, <<116,239,248>>, <<118,104,42>>, <<118,105,226>>, <<118,131,10>>, <<119,51,107>>,
    <<119,160,163>>, <<119,214,99>>, <<119,241,67>>, <<119,242,251>>, <<120,133,12>>, <<121,80,77>>, <<121,108,229>>,
    <<121,134,13>>, <<122,163,166>>, <<122,190,134>>, <<122,217,102>>, <<122,244,70>>, <<122,245,254>>, <<123,136,15>>,
    <<124,83,80>>, <<124,111,232>>, <<124,137,16>>, <<125,193,137>>, <<125,220,105>>, <<126,112,50>>, <<126,139,18>>,
    <<126,140,202>>, <<126,221,106>>, <<127,249,75>>, <<128,141,20>>, <<128,169,172>>, <<128,250,76>>, <<129,115,53>>,
    <<129,143,205>>, <<129,224,109>>, <<130,89,86>>, <<130,252,78>>, <<131,199,143>>, <<131,226,111>>, <<132,118,56>>,
    <<132,146,208>>, <<132,227,112>>, <<133,119,57>>, <<133,147,209>>, <<133,255,81>>, <<134,147,26>>, <<135,121,59>>,
    <<135,149,211>>, <<135,230,115>>, <<136,95,92>>, <<136,122,60>>, <<136,204,148>>, <<137,14,5>>, <<137,150,29>>,
    <<137,178,181>>, <<138,152,214>>, <<138,179,182>>, <<138,233,118>>, <<139,98,95>>, <<139,153,215>>, <<139,207,151>>,
    <<140,153,32>>, <<140,235,120>>, <<141,182,185>>, <<141,236,121>>, <<142,101,98>>, <<142,182,2>>, <<142,210,154>>,
    <<143,102,99>>, <<143,156,35>>, <<143,238,123>>, <<144,239,124>>, <<145,104,101>>, <<145,185,5>>, <<145,213,157>>,
    <<146,105,102>>, <<146,133,254>>, <<146,159,38>>, <<147,160,39>>, <<147,188,191>>, <<148,80,136>>, <<148,107,104>>,
    <<148,188,8>>, <<148,216,160>>, <<149,162,41>>, <<149,190,193>>, <<150,82,138>>, <<150,190,10>>, <<150,245,130>>,
    <<151,56,171>>, <<151,110,107>>, <<151,191,11>>, <<151,219,163>>, <<152,193,196>>, <<153,85,141>>, <<153,112,109>>,
    <<153,166,45>>, <<153,194,197>>, <<154,59,174>>, <<154,140,78>>, <<154,194,14>>, <<154,222,166>>, <<154,249,134>>,
    <<155,196,199>>, <<157,34,25>>, <<157,62,177>>, <<157,89,145>>, <<157,143,81>>, <<157,171,233>>, <<157,197,17>>,
    <<157,225,169>>, <<157,252,137>>, <<158,199,202>>, <<159,91,147>>, <<160,200,20>>, <<160,228,172>>, <<161,202,205>>,
    <<162,94,150>>, <<163,68,183>>, <<163,149,87>>, <<163,177,239>>, <<164,150,88>>, <<164,178,240>>, <<164,204,24>>,
    <<164,205,208>>, <<165,69,1>>, <<165,97,153>>, <<165,178,57>>, <<166,71,186>>, <<166,179,58>>, <<166,206,26>>,
    <<166,207,210>>, <<166,234,178>>, <<167,126,123>>, <<167,207,27>>, <<167,208,211>>, <<167,235,179>>, <<168,72,4>>,
    <<168,100,156>>, <<169,74,189>>, <<169,155,93>>, <<169,183,245>>, <<170,210,30>>, <<170,211,214>>, <<170,238,182>>,
    <<171,75,7>>, <<172,185,64>>, <<172,212,32>>, <<172,213,216>>, <<172,240,184>>, <<173,213,33>>, <<173,241,185>>,
    <<174,78,10>>, <<174,133,130>>, <<174,241,2>>, <<176,190,252>>, <<176,216,36>>, <<176,244,188>>, <<177,81,13>>,
    <<177,190,69>>, <<177,244,5>>, <<178,164,102>>, <<179,56,47>>, <<179,193,255>>, <<179,219,39>>, <<179,247,191>>,
    <<180,84,16>>, <<180,139,136>>, <<180,193,72>>, <<180,221,224>>, <<180,247,8>>, <<181,167,105>>, <<181,221,41>>,
    <<181,249,193>>, <<182,249,10>>, <<183,61,235>>, <<183,87,19>>, <<183,196,75>>, <<183,224,227>>, <<183,250,11>>,
    <<184,170,108>>, <<184,252,196>>, <<185,225,45>>, <<185,253,197>>, <<186,199,78>>, <<186,227,230>>, <<186,253,14>>,
    <<187,91,23>>, <<187,119,175>>, <<187,173,111>>, <<187,255,199>>, <<188,174,112>>, <<188,255,16>>, <<189,202,81>>,
    <<189,230,233>>, <<191,68,59>>, <<191,95,27>>, <<191,204,83>>, <<191,231,51>>, <<192,70,244>>, <<192,205,84>>,
    <<192,233,236>>, <<193,179,117>>, <<194,71,62>>, <<194,98,30>>, <<194,180,118>>, <<195,45,95>>, <<195,73,247>>,
    <<195,208,87>>, <<195,235,55>>, <<195,236,239>>, <<196,128,184>>, <<196,182,120>>, <<198,48,98>>, <<198,76,250>>,
    <<198,129,2>>, <<198,157,154>>, <<198,211,90>>, <<198,238,58>>, <<198,239,242>>, <<199,185,123>>, <<201,51,101>>,
    <<201,214,93>>, <<201,242,245>>, <<202,134,190>>, <<203,80,71>>, <<204,54,104>>, <<204,135,8>>, <<204,163,160>>,
    <<204,244,64>>, <<206,83,74>>, <<207,57,107>>, <<207,193,131>>, <<207,220,99>>, <<207,248,251>>, <<208,112,44>>,
    <<208,140,196>>, <<208,221,100>>, <<208,249,252>>, <<209,86,77>>, <<209,249,69>>, <<210,141,14>>, <<210,169,166>>,
    <<210,250,70>>, <<211,143,199>>, <<211,224,103>>, <<211,252,255>>, <<212,89,80>>, <<212,252,72>>, <<213,118,233>>,
    <<213,199,137>>, <<213,226,105>>, <<214,146,202>>, <<214,227,106>>, <<215,119,51>>, <<215,147,203>>, <<215,255,75>>,
    <<216,147,20>>, <<217,149,205>>, <<217,230,109>>, <<218,95,86>>, <<218,204,142>>, <<219,150,23>>, <<219,178,175>>,
    <<220,152,208>>, <<220,233,112>>, <<221,98,89>>, <<221,125,57>>, <<221,153,209>>, <<221,207,145>>, <<222,153,26>>,
    <<222,235,114>>, <<223,182,179>>, <<224,47,156>>, <<224,101,92>>, <<224,210,148>>, <<225,20,5>>, <<225,102,93>>,
    <<225,156,29>>, <<225,238,117>>, <<226,158,214>>, <<226,239,118>>, <<227,213,151>>, <<228,105,96>>, <<228,133,248>>,
    <<228,159,32>>, <<228,241,120>>, <<229,160,33>>, <<229,188,185>>, <<230,188,2>>, <<230,216,154>>, <<231,136,251>>,
    <<231,190,187>>, <<231,244,123>>, <<232,82,132>>, <<232,190,4>>, <<232,245,124>>, <<233,28,13>>, <<233,56,165>>,
    <<233,191,5>>, <<233,219,157>>, <<234,165,38>>, <<234,193,190>>, <<236,31,16>>, <<236,59,168>>, <<236,140,72>>,
    <<236,194,8>>, <<236,222,160>>, <<236,249,128>>, <<237,114,105>>, <<237,196,193>>, <<239,143,75>>, <<239,171,227>>,
    <<239,252,131>>, <<240,199,196>>, <<241,91,141>>, <<242,200,14>>, <<242,228,166>>, <<243,120,111>>, <<243,202,199>>,
    <<245,68,177>>, <<245,149,81>>, <<245,177,233>>, <<246,204,18>>, <<246,205,202>>, <<247,178,51>>, <<248,71,180>>,
    <<248,179,52>>, <<248,206,20>>, <<248,207,204>>, <<248,234,172>>, <<249,126,117>>, <<249,207,21>>, <<249,208,205>>,
    <<249,235,173>>, <<251,74,183>>, <<251,155,87>>, <<251,183,239>>, <<252,129,120>>, <<252,210,24>>, <<252,211,208>>,
    <<252,238,176>>, <<253,75,1>>, <<255,132,123>>, <<255,213,27>>, <<255,214,211>>, <<255,241,179>>
    }

\* Math.round(0.2126 * r + 0.7152 * g + 0.0722 * b)
Luma(r, g, b) ==
    LET exact == Round(2126 * r + 7152 * g + 722 * b, 10000)
    IN  IF <<r, g, b>> \in LumaBelowTie THEN exact - 1 ELSE exact

\* the quantisation with the quotient truncated instead of rounded
FloorGray7(grayscale) == Max(0, Min(127, Floor(grayscale * 127, 255)))

\* Math.max(0, Math.min(127, Math.round(grayscale * 127 / 255)));
\* grayscale * 127 / 255 is never within 1/510 of a half, so the double
\* quotient rounds as the exact one
Gray7(grayscale) == Max(0, Min(127, Round(grayscale * 127, 255)))

\* DataView.setUint16(offset, v, false): v modulo 2^16, high byte first
Uint16Hi(v) == (v % 65536) \div 256

Uint16Lo(v) == v % 256

\* encodeGB7 with the mask bit set only above the threshold (a > 128)
StrictAlphaEncodeGB7(img) ==
    LET width == img.width
        height == img.height
        data == img.data
        pixelCount == width * height
        grayscaleData == [i \in 0..(pixelCount - 1) |->
            Gray7(Luma(data[4 * i + 1], data[4 * i + 2], data[4 * i + 3]))]
        alphaMask == [i \in 0..(pixelCount - 1) |->
            IF data[4 * i + 4] > ALPHA_THRESHOLD THEN 1 ELSE 0]
        hasMask == \E i \in 0..(pixelCount - 1) : alphaMask[i] = 0
    IN  IF width = 0 \/ height = 0 THEN Thrown("zero size")
        ELSE IF width > MAX_DIMENSION \/ height > MAX_DIMENSION THEN Thrown("size over limit")
        ELSE IF Len(data) # pixelCount * 4 THEN Thrown("bad data length")
        ELSE Returned([k \in 1..(HEADER_SIZE + pixelCount) |->
                CASE k <= 4 -> GB7_SIGNATURE[k]
                  [] k = 5 -> GB7_VERSION
                  [] k = 6 -> IF hasMask THEN 1 ELSE 0
                  [] k = 7 -> Uint16Hi(width)
                  [] k = 8 -> Uint16Lo(width)
                  [] k = 9 -> Uint16Hi(height)
                  [] k = 10 -> Uint16Lo(height)
                  [] k \in {11, 12} -> 0
                  [] OTHER ->
                        IF hasMask
                        THEN alphaMask[k - HEADER_SIZE - 1] * 128
                                + grayscaleData[k - HEADER_SIZE - 1]
                        ELSE grayscaleData[k - HEADER_SIZE - 1]])

\* encodeGB7 without its three validations; a pixel missing from the data
\* reads as undefined and is stored as 0
UncheckedEncodeGB7(img) ==
    LET width == img.width
        height == img.height
        data == img.data
        pixelCount == width * height
        grayscaleData == [i \in 0..(pixelCount - 1) |->
            IF 4 * i + 4 <= Len(data)
            THEN Gray7(Luma(data[4 * i + 1], data[4 * i + 2], data[4 * i + 3]))
            ELSE 0]
        alphaMask == [i \in 0..(pixelCount - 1) |->
            IF 4 * i + 4 <= Len(data) /\ data[4 * i + 4] >= ALPHA_THRESHOLD THEN 1 ELSE 0]
        hasMask == \E i \in 0..(pixelCount - 1) : alphaMask[i] = 0
    IN  Returned([k \in 1..(HEADER_SIZE + pixelCount) |->
                CASE k <= 4 -> GB7_SIGNATURE[k]
                  [] k = 5 -> GB7_VERSION
                  [] k = 6 -> IF hasMask THEN 1 ELSE 0
                  [] k = 7 -> Uint16Hi(width)
                  [] k = 8 -> Uint16Lo(width)
                  [] k = 9 -> Uint16Hi(height)
                  [] k = 10 -> Uint16Lo(height)
                  [] k \in {11, 12} -> 0
                  [] OTHER ->
                        IF hasMask
                        THEN alphaMask[k - HEADER_SIZE - 1] * 128
                                + grayscaleData[k - HEADER_SIZE - 1]
                        ELSE grayscaleData[k - HEADER_SIZE - 1]])

\* encodeGB7(imageData): the byte stream, or the error thrown
encodeGB7(img) ==
    LET width == img.width
        height == img.height
        data == img.data
        pixelCount == width * height
        grayscaleData == [i \in 0..(pixelCount - 1) |->
            Gray7(Luma(data[4 * i + 1], data[4 * i + 2], data[4 * i + 3]))]
        \* alphaBit = a >= ALPHA_THRESHOLD ? 1 : 0
        alphaMask == [i \in 0..(pixelCount - 1) |->
            IF data[4 * i + 4] >= ALPHA_THRESHOLD THEN 1 ELSE 0]
        \* hasTransparentPixel
        hasMask == \E i \in 0..(pixelCount - 1) : alphaMask[i] = 0
    IN  IF width = 0 \/ height = 0 THEN Thrown("zero size")
        ELSE IF width > MAX_DIMENSION \/ height > MAX_DIMENSION THEN Thrown("size over limit")
        ELSE IF Len(data) # pixelCount * 4 THEN Thrown("bad data length")
        ELSE Returned([k \in 1..(HEADER_SIZE + pixelCount) |->
                CASE k <= 4 -> GB7_SIGNATURE[k]
                  [] k = 5 -> GB7_VERSION
                  [] k = 6 -> IF hasMask THEN 1 ELSE 0
                  [] k = 7 -> Uint16Hi(width)
                  [] k = 8 -> Uint16Lo(width)
                  [] k = 9 -> Uint16Hi(height)
                  [] k = 10 -> Uint16Lo(height)
                  [] k \in {11, 12} -> 0
                  [] OTHER ->
                        IF hasMask
                        THEN alphaMask[k - HEADER_SIZE - 1] * 128
                                + grayscaleData[k - HEADER_SIZE - 1]
                        ELSE grayscaleData[k - HEADER_SIZE - 1]])

----------------------------------------------------------------------------
(* GB7 codec: parseGB7File *)

Resolved(h, img) == [status |-> "resolved", header |-> h, imageData |-> img, url |-> "data:image/png"]

Rejected(e) == [status |-> "rejected", error |-> e]

\* uint8Array[index] (0-based): the byte, or undefined past the end
Undefined == -1

ByteAt(bytes, index) == IF index + 1 \in 1..Len(bytes) THEN bytes[index + 1] ELSE Undefined

\* v & mask for a byte or undefined v and mask 0x7F or 0x80: undefined
\* converts to 0
BitAnd7F(v) == IF v = Undefined THEN 0 ELSE v % 128

BitAnd80(v) == IF v = Undefined THEN 0 ELSE (v \div 128) * 128

\* the first offset in 0..3 at which the signature loop throws, or 4
SignatureStop(bytes) ==
    LET bad == { i \in 0..3 : i >= Len(bytes) \/ bytes[i + 1] # GB7_SIGNATURE[i + 1] }
    IN  IF bad = {} THEN 4 ELSE CHOOSE i \in bad : \A j \in bad : i <= j

\* parseGB7File without the expansion of the 7-bit value to 8 bits
HalfScaleParseGB7File(bytes) ==
    LET stop == SignatureStop(bytes)
        flags == bytes[6]
        hasMask == (flags % 2) = 1
        width == bytes[7] * 256 + bytes[8]
        height == bytes[9] * 256 + bytes[10]
        header == [version |-> bytes[5], hasMask |-> hasMask, width |-> width, height |-> height]
        headerSize == 12
        imageDataSize == width * height
        pixels == [k \in 1..(4 * imageDataSize) |->
            LET i == (k - 1) \div 4
                pixelByte == ByteAt(bytes, headerSize + i)
                grayscaleValue == BitAnd7F(pixelByte)
                scaledValue == grayscaleValue
            IN  IF (k - 1) % 4 < 3 THEN scaledValue
                ELSE IF hasMask THEN (IF BitAnd80(pixelByte) # 0 THEN 255 ELSE 0)
                ELSE 255]
    IN  IF stop < 4
        THEN IF stop >= Len(bytes) THEN Rejected("RangeError")
             ELSE Rejected("Invalid GrayBit-7 file signature")
        ELSE IF Len(bytes) < 10 THEN Rejected("RangeError")
        ELSE IF width = 0 \/ height = 0 THEN Rejected("IndexSizeError")
        ELSE Resolved(header, [width |-> width, height |-> height, data |-> pixels])

\* parseGB7File without the signature loop
LenientParseGB7File(bytes) ==
    LET flags == ByteAt(bytes, 5)
        hasMask == flags # Undefined /\ (flags % 2) = 1
        width == Max(0, ByteAt(bytes, 6)) * 256 + Max(0, ByteAt(bytes, 7))
        height == Max(0, ByteAt(bytes, 8)) * 256 + Max(0, ByteAt(bytes, 9))
        header == [version |-> ByteAt(bytes, 4), hasMask |-> hasMask,
                   width |-> width, height |-> height]
        headerSize == 12
        imageDataSize == width * height
        pixels == [k \in 1..(4 * imageDataSize) |->
            LET i == (k - 1) \div 4
                pixelByte == ByteAt(bytes, headerSize + i)
                grayscaleValue == BitAnd7F(pixelByte)
                scaledValue == Floor(grayscaleValue * 255, 127)
            IN  IF (k - 1) % 4 < 3 THEN scaledValue
                ELSE IF hasMask THEN (IF BitAnd80(pixelByte) # 0 THEN 255 ELSE 0)
                ELSE 255]
    IN  IF Len(bytes) < 10 THEN Rejected("RangeError")
        ELSE IF width = 0 \/ height = 0 THEN Rejected("IndexSizeError")
        ELSE Resolved(header, [width |-> width, height |-> height, data |-> pixels])

\* parseGB7File(file): how the returned promise settles once the reader has
\* loaded the bytes.  Every throw inside reader.onload is caught and rejects
\* the promise.  DataView.getUint8/getUint16 throw a RangeError past the end
\* of the buffer; createImageData throws an IndexSizeError for a zero
\* width or height; reading uint8Array past the end yields undefined.
parseGB7File(bytes) ==
    LET stop == SignatureStop(bytes)
        flags == bytes[6]
        hasMask == (flags % 2) = 1
        width == bytes[7] * 256 + bytes[8]
        height == bytes[9] * 256 + bytes[10]
        header == [version |-> bytes[5], hasMask |-> hasMask, width |-> width, height |-> height]
        headerSize == 12
        imageDataSize == width * height
        pixels == [k \in 1..(4 * imageDataSize) |->
            LET i == (k - 1) \div 4
                pixelByte == ByteAt(bytes, headerSize + i)
                grayscaleValue == BitAnd7F(pixelByte)
                scaledValue == Floor(grayscaleValue * 255, 127)
            IN  IF (k - 1) % 4 < 3 THEN scaledValue
                ELSE IF hasMask THEN (IF BitAnd80(pixelByte) # 0 THEN 255 ELSE 0)
                ELSE 255]
    IN  IF stop < 4
        THEN IF stop >= Len(bytes) THEN Rejected("RangeError")
             ELSE Rejected("Invalid GrayBit-7 file signature")
        ELSE IF Len(bytes) < 10 THEN Rejected("RangeError")
        ELSE IF width = 0 \/ height = 0 THEN Rejected("IndexSizeError")
        ELSE Resolved(header, [width |-> width, height |-> height, data |-> pixels])

\* Byte streams given to the parser: a 12-byte header (signature intact or
\* damaged, flags, width, height) followed by 0..width*height payload bytes,
\* and every proper prefix of such a header.
SignatureVariants ==
    { GB7_SIGNATURE, <<103, 66, 55, 29>>, <<71, 98, 55, 29>>, <<71, 66, 0, 29>>,
      <<71, 66, 55, 255>>, <<0, 0, 0, 0>> }

PayloadBytes == { 0, 127, 128, 255 }

HeaderBytes(sig, flags, w, h) ==
    sig \o <<GB7_VERSION, flags, Uint16Hi(w), Uint16Lo(w), Uint16Hi(h), Uint16Lo(h), 0, 0>>

FileHeaders ==
    { HeaderBytes(sig, flags, s[1], s[2]) :
        sig \in SignatureVariants, flags \in {0, 1}, s \in Shapes(MaxPixels) \cup {<<0, 1>>} }

GB7Files ==
    UNION { UNION { { hd \o payload : payload \in [1..n -> PayloadBytes] } :
                    n \in 0..(hd[8] * hd[10]) } : hd \in FileHeaders }
    \cup { SubSeq(hd, 1, n) : hd \in FileHeaders, n \in 0..11 }

----------------------------------------------------------------------------
(* Resampler: nearestNeighbor, bilinearInterpolation, resizeImage           *)
(*                                                                         *)
(* The ratios and weights are doubles in the code.  For source and         *)
(* destination buffers of at most 5 pixels and the channel values of       *)
(* Palette the floors and the final Math.round agree with the exact        *)
(* rational values computed here; from a destination side of 6 on, a       *)
(* weighted sum that is exactly a half can come out below it in doubles    *)
(* (212.49999999999997 for 212.5).                                         *)

\* the <<srcDim, destDim, dest>> at which the double dest * (srcDim / destDim)
\* lands just below the integer that dest * srcDim / destDim is, so that
\* Math.floor gives one less: 11 * (30 / 22) is 14.999999999999998.
\* Complete for sides up to 7, and for a side of 30 resized to 22.
RatioBelowInteger == { <<30, 22, 11>> }

\* Math.floor(dest * ratio) with ratio = srcDim / destDim
FloorOfRatio(dest, srcDim, destDim) ==
    IF <<srcDim, destDim, dest>> \in RatioBelowInteger
    THEN Floor(dest * srcDim, destDim) - 1
    ELSE Floor(dest * srcDim, destDim)

\* nearestNeighbor(srcData, srcWidth, srcHeight, destWidth, destHeight)
nearestNeighbor(srcData, srcWidth, srcHeight, destWidth, destHeight) ==
    [width |-> destWidth, height |-> destHeight,
     data |-> [k \in 1..(destWidth * destHeight * 4) |->
        LET x == ((k - 1) \div 4) % destWidth
            y == ((k - 1) \div 4) \div destWidth
            srcY == Min(FloorOfRatio(y, srcHeight, destHeight), srcHeight - 1)
            srcX == Min(FloorOfRatio(x, srcWidth, destWidth), srcWidth - 1)
            srcPos == (srcY * srcWidth + srcX) * 4
        IN  srcData.data[srcPos + ((k - 1) % 4) + 1]]]

\* bilinearInterpolation(srcData, srcWidth, srcHeight, destWidth, destHeight).
\* xPos = x * (srcWidth - 1) / destWidth, so xDiff = xNum / destWidth with
\* xNum = x (srcWidth - 1) mod destWidth, and likewise for y; the value
\* rounded is the weighted sum over the common denominator.
bilinearInterpolation(srcData, srcWidth, srcHeight, destWidth, destHeight) ==
    [width |-> destWidth, height |-> destHeight,
     data |-> [k \in 1..(destWidth * destHeight * 4) |->
        LET x == ((k - 1) \div 4) % destWidth
            y == ((k - 1) \div 4) \div destWidth
            i == (k - 1) % 4
            y1 == Floor(y * (srcHeight - 1), destHeight)
            y2 == Min(y1 + 1, srcHeight - 1)
            yNum == (y * (srcHeight - 1)) % destHeight
            x1 == Floor(x * (srcWidth - 1), destWidth)
            x2 == Min(x1 + 1, srcWidth - 1)
            xNum == (x * (srcWidth - 1)) % destWidth
            p1 == (y1 * srcWidth + x1) * 4
            p2 == (y1 * srcWidth + x2) * 4
            p3 == (y2 * srcWidth + x1) * 4
            p4 == (y2 * srcWidth + x2) * 4
            \* top and bottom, times destWidth
            top == (destWidth - xNum) * srcData.data[p1 + i + 1] + xNum * srcData.data[p2 + i + 1]
            bottom == (destWidth - xNum) * srcData.data[p3 + i + 1] + xNum * srcData.data[p4 + i + 1]
            \* value, times destWidth * destHeight
            value == (destHeight - yNum) * top + yNum * bottom
        IN  Round(value, destWidth * destHeight)]]

\* resizeImage(srcData, srcWidth, srcHeight, destWidth, destHeight, method);
\* a call without method takes the default 'bilinear'
resizeImage(srcData, srcWidth, srcHeight, destWidth, destHeight, method) ==
    IF method = "nearest"
    THEN nearestNeighbor(srcData, srcWidth, srcHeight, destWidth, destHeight)
    ELSE bilinearInterpolation(srcData, srcWidth, srcHeight, destWidth, destHeight)

\* the method argument: absent (the default applies), 'bilinear' or 'nearest'
Methods == { "default", "bilinear", "nearest" }

----------------------------------------------------------------------------
(* Tone curves: createLookupTable *)

\* curve points explored: inputs and outputs over these values
CurveInputs == { 0, 14, 100, 128, 255 }

CurveOutputs == { 0, 50, 61, 200, 255 }

CurvePoints == [input : CurveInputs, output : CurveOutputs]

Clamp255(v) == Max(0, Min(255, v))

\* The <<p1.output, p2.output - p1.output, inputDelta, i - p1.input>>, among
\* the points of CurvePoints, for which p1.output + slope * (i - p1.input)
\* is exactly a half-integer and the double product, formed from the
\* rounded double slope = (p2.output - p1.output) / inputDelta, is below it
\* (255 / 100 * 50 is 127.49999999999999).
SlopeBelowTie ==
    { <<0, 61, 14, 7>>, <<0, 61, 28, 14>>, <<0, 255, 100, 50>>,
      <<0, 255, 100, 90>>, <<50, 205, 100, 90>> }

\* Math.round(p1.output + slope * (i - p1.input)) for 0 < k = i - p1.input < inputDelta
Interpolate(output1, outputDelta, inputDelta, k) ==
    LET exact == Round(output1 * inputDelta + outputDelta * k, inputDelta)
    IN  IF <<output1, outputDelta, inputDelta, k>> \in SlopeBelowTie THEN exact - 1 ELSE exact

\* createLookupTable(point1, point2): the 256-entry table, indexed 0..255
createLookupTable(pt1, pt2) ==
    LET p1 == IF pt1.input <= pt2.input THEN pt1 ELSE pt2
        p2 == IF pt1.input <= pt2.input THEN pt2 ELSE pt1
        inputDelta == p2.input - p1.input
    IN  [i \in 0..255 |->
            IF i <= p1.input THEN Clamp255(p1.output)
            ELSE IF i >= p2.input THEN Clamp255(p2.output)
            ELSE IF inputDelta = 0 THEN Clamp255(Round(p1.output + p2.output, 2))
            ELSE Clamp255(Interpolate(p1.output, p2.output - p1.output, inputDelta,
                                      i - p1.input))]

----------------------------------------------------------------------------
(* Filters: padImageData, applyKernelFilter *)

\* FILTER_PRESETS, in order; a preset without divisor or offset leaves the
\* field out and applyKernelFilter takes its default
FILTER_PRESETS == <<
    [matrix |-> << <<0, 0, 0>>, <<0, 1, 0>>, <<0, 0, 0>> >>],
    [matrix |-> << <<0, -1, 0>>, <<-1, 5, -1>>, <<0, -1, 0>> >>],
    [matrix |-> << <<1, 2, 1>>, <<2, 4, 2>>, <<1, 2, 1>> >>, divisor |-> 16],
    [matrix |-> << <<1, 1, 1>>, <<1, 1, 1>>, <<1, 1, 1>> >>, divisor |-> 9],
    [matrix |-> << <<-1, 0, 1>>, <<-1, 0, 1>>, <<-1, 0, 1>> >>],
    [matrix |-> << <<-1, -1, -1>>, <<0, 0, 0>>, <<1, 1, 1>> >>] >>

\* padImageData whose last loop runs over the rows of the centre only, so
\* that the corners stay blank
BlankCornerPadImageData(img, padSize) ==
    LET width == img.width
        height == img.height
        data == img.data
        paddedWidth == width + 2 * padSize
        paddedHeight == height + 2 * padSize
        X(k) == ((k - 1) \div 4) % paddedWidth
        Y(k) == ((k - 1) \div 4) \div paddedWidth
        C(k) == (k - 1) % 4
        Index(x, y, c) == (y * paddedWidth + x) * 4 + c + 1
        Cells == 1..(paddedWidth * paddedHeight * 4)
        centre == [k \in Cells |->
            IF /\ X(k) \in padSize..(padSize + width - 1)
               /\ Y(k) \in padSize..(padSize + height - 1)
            THEN data[((Y(k) - padSize) * width + (X(k) - padSize)) * 4 + C(k) + 1]
            ELSE 0]
        rows == [k \in Cells |->
            IF X(k) \in padSize..(paddedWidth - padSize - 1)
            THEN IF Y(k) < padSize
                 THEN centre[Index(X(k), padSize, C(k))]
                 ELSE IF Y(k) > paddedHeight - 1 - padSize
                 THEN centre[Index(X(k), paddedHeight - padSize - 1, C(k))]
                 ELSE centre[k]
            ELSE centre[k]]
        columns == [k \in Cells |->
            IF Y(k) < padSize \/ Y(k) > paddedHeight - 1 - padSize
            THEN rows[k]
            ELSE IF X(k) < padSize
            THEN rows[Index(padSize, Y(k), C(k))]
            ELSE IF X(k) > paddedWidth - 1 - padSize
            THEN rows[Index(paddedWidth - padSize - 1, Y(k), C(k))]
            ELSE rows[k]]
    IN  [width |-> paddedWidth, height |-> paddedHeight, data |-> columns]

\* padImageData(imageData, padSize): the centre copy, then the top and bottom
\* rows of the centre columns, then the left and right columns of every row,
\* each loop reading the buffer the previous one left
padImageData(img, padSize) ==
    LET width == img.width
        height == img.height
        data == img.data
        paddedWidth == width + 2 * padSize
        paddedHeight == height + 2 * padSize
        X(k) == ((k - 1) \div 4) % paddedWidth
        Y(k) == ((k - 1) \div 4) \div paddedWidth
        C(k) == (k - 1) % 4
        Index(x, y, c) == (y * paddedWidth + x) * 4 + c + 1
        Cells == 1..(paddedWidth * paddedHeight * 4)
        centre == [k \in Cells |->
            IF /\ X(k) \in padSize..(padSize + width - 1)
               /\ Y(k) \in padSize..(padSize + height - 1)
            THEN data[((Y(k) - padSize) * width + (X(k) - padSize)) * 4 + C(k) + 1]
            ELSE 0]
        rows == [k \in Cells |->
            IF X(k) \in padSize..(paddedWidth - padSize - 1)
            THEN IF Y(k) < padSize
                 THEN centre[Index(X(k), padSize, C(k))]
                 ELSE IF Y(k) > paddedHeight - 1 - padSize
                 THEN centre[Index(X(k), paddedHeight - padSize - 1, C(k))]
                 ELSE centre[k]
            ELSE centre[k]]
        columns == [k \in Cells |->
            IF X(k) < padSize
            THEN rows[Index(padSize, Y(k), C(k))]
            ELSE IF X(k) > paddedWidth - 1 - padSize
            THEN rows[Index(paddedWidth - padSize - 1, Y(k), C(k))]
            ELSE rows[k]]
    IN  [width |-> paddedWidth, height |-> paddedHeight, data |-> columns]

\* the value a Uint8ClampedArray stores for
\* Math.max(0, Math.min(255, Math.round(sum / divisor + offset))),
\* sum, divisor and offset integers: a zero divisor makes the quotient
\* +Infinity, -Infinity or NaN, and NaN is stored as 0
KernelResult(sum, divisor, offset) ==
    IF divisor = 0
    THEN IF sum > 0 THEN 255 ELSE 0
    ELSE IF divisor > 0
    THEN Clamp255(Round(sum + offset * divisor, divisor))
    ELSE Clamp255(Round(-sum - offset * divisor, -divisor))

\* applyKernelFilter with paddedY = y in place of y + ky
RowBlindApplyKernelFilter(img, kernel) ==
    LET width == img.width
        height == img.height
        matrix == kernel.matrix
        divisor == IF "divisor" \in DOMAIN kernel THEN kernel.divisor ELSE 1
        offset == IF "offset" \in DOMAIN kernel THEN kernel.offset ELSE 0
        paddedImageData == padImageData(img, 1)
        paddedData == paddedImageData.data
        paddedWidth == paddedImageData.width
        Defined(ky, kx) == ky + 1 <= Len(matrix) /\ kx + 1 <= Len(matrix[ky + 1])
        Term(x, y, channel, ky, kx) ==
            paddedData[(y * paddedWidth + (x + kx)) * 4 + channel + 1]
                * matrix[ky + 1][kx + 1]
        Sum(x, y, channel) ==
            Term(x, y, channel, 0, 0) + Term(x, y, channel, 0, 1) + Term(x, y, channel, 0, 2)
            + Term(x, y, channel, 1, 0) + Term(x, y, channel, 1, 1) + Term(x, y, channel, 1, 2)
            + Term(x, y, channel, 2, 0) + Term(x, y, channel, 2, 1) + Term(x, y, channel, 2, 2)
    IN  IF Len(matrix) # 3 \/ Len(matrix[1]) # 3
        THEN Thrown("only 3x3 kernels")
        ELSE Returned([width |-> width, height |-> height,
                data |-> [k \in 1..(width * height * 4) |->
                    LET x == ((k - 1) \div 4) % width
                        y == ((k - 1) \div 4) \div width
                        channel == (k - 1) % 4
                    IN  IF channel < 3
                        THEN IF \A ky \in 0..2, kx \in 0..2 : Defined(ky, kx)
                             THEN KernelResult(Sum(x, y, channel), divisor, offset)
                             ELSE 0
                        ELSE img.data[(y * width + x) * 4 + 3 + 1]]])

\* applyKernelFilter(imageData, kernel): the filtered buffer, or the error
\* thrown.  A matrix entry that is missing reads as undefined and makes the
\* sum NaN, which is stored as 0.
applyKernelFilter(img, kernel) ==
    LET width == img.width
        height == img.height
        matrix == kernel.matrix
        divisor == IF "divisor" \in DOMAIN kernel THEN kernel.divisor ELSE 1
        offset == IF "offset" \in DOMAIN kernel THEN kernel.offset ELSE 0
        paddedImageData == padImageData(img, 1)
        paddedData == paddedImageData.data
        paddedWidth == paddedImageData.width
        Defined(ky, kx) == ky + 1 <= Len(matrix) /\ kx + 1 <= Len(matrix[ky + 1])
        Term(x, y, channel, ky, kx) ==
            paddedData[((y + ky) * paddedWidth + (x + kx)) * 4 + channel + 1]
                * matrix[ky + 1][kx + 1]
        Sum(x, y, channel) ==
            Term(x, y, channel, 0, 0) + Term(x, y, channel, 0, 1) + Term(x, y, channel, 0, 2)
            + Term(x, y, channel, 1, 0) + Term(x, y, channel, 1, 1) + Term(x, y, channel, 1, 2)
            + Term(x, y, channel, 2, 0) + Term(x, y, channel, 2, 1) + Term(x, y, channel, 2, 2)
    IN  IF Len(matrix) # 3 \/ Len(matrix[1]) # 3
        THEN Thrown("only 3x3 kernels")
        ELSE Returned([width |-> width, height |-> height,
                data |-> [k \in 1..(width * height * 4) |->
                    LET x == ((k - 1) \div 4) % width
                        y == ((k - 1) \div 4) \div width
                        channel == (k - 1) % 4
                    IN  IF channel < 3
                        THEN IF \A ky \in 0..2, kx \in 0..2 : Defined(ky, kx)
                             THEN KernelResult(Sum(x, y, channel), divisor, offset)
                             ELSE 0
                        ELSE img.data[(y * width + x) * 4 + 3 + 1]]])


\* whether padImageData(imageData, padSize) throws, which only a negative
\* padSize can cause: a negative buffer length is a RangeError of the typed
\* array, and ImageData refuses an empty buffer and a negative side
PadRefused(img, padSize) ==
    LET paddedWidth == img.width + 2 * padSize
        paddedHeight == img.height + 2 * padSize
    IN  \/ paddedWidth * paddedHeight * 4 <= 0
        \/ paddedWidth < 0
        \/ paddedHeight < 0

\* values.sort((a, b) => a - b)[Math.floor(values.length / 2)]; with no value
\* the entry is undefined, which a Uint8ClampedArray stores as 0
Median(values) ==
    LET n == Len(values)
        middle == Floor(n, 2)
        Below(v) == Cardinality({ i \in 1..n : values[i] < v })
        UpTo(v) == Cardinality({ i \in 1..n : values[i] <= v })
    IN  IF n = 0
        THEN 0
        ELSE CHOOSE v \in { values[i] : i \in 1..n } : Below(v) <= middle /\ middle < UpTo(v)

\* applyMedianFilter with the alpha channel filtered like R, G and B
AlphaTooApplyMedianFilter(img, kernelSize) ==
    LET width == img.width
        height == img.height
        data == img.data
        halfKernel == Floor(kernelSize, 2)
        paddedImageData == padImageData(img, halfKernel)
        paddedData == paddedImageData.data
        paddedWidth == paddedImageData.width
        count == IF kernelSize > 0 THEN kernelSize * kernelSize ELSE 0
        values(x, y, channel) == [j \in 1..count |->
            LET ky == (j - 1) \div kernelSize
                kx == (j - 1) % kernelSize
            IN  paddedData[((y + ky) * paddedWidth + (x + kx)) * 4 + channel + 1]]
    IN  IF PadRefused(img, halfKernel)
        THEN Thrown("padImageData")
        ELSE Returned([width |-> width, height |-> height,
                data |-> [k \in 1..Len(data) |->
                    LET x == ((k - 1) \div 4) % width
                        y == ((k - 1) \div 4) \div width
                        channel == (k - 1) % 4
                    IN  Median(values(x, y, channel))]])

\* applyMedianFilter with the window's first value in place of its median
FirstValueApplyMedianFilter(img, kernelSize) ==
    LET width == img.width
        height == img.height
        data == img.data
        halfKernel == Floor(kernelSize, 2)
        paddedImageData == padImageData(img, halfKernel)
        paddedData == paddedImageData.data
        paddedWidth == paddedImageData.width
        count == IF kernelSize > 0 THEN kernelSize * kernelSize ELSE 0
        values(x, y, channel) == [j \in 1..count |->
            LET ky == (j - 1) \div kernelSize
                kx == (j - 1) % kernelSize
            IN  paddedData[((y + ky) * paddedWidth + (x + kx)) * 4 + channel + 1]]
    IN  IF PadRefused(img, halfKernel)
        THEN Thrown("padImageData")
        ELSE Returned([width |-> width, height |-> height,
                data |-> [k \in 1..Len(data) |->
                    LET x == ((k - 1) \div 4) % width
                        y == ((k - 1) \div 4) \div width
                        channel == (k - 1) % 4
                    IN  IF channel < 3
                        THEN IF count = 0 THEN 0 ELSE values(x, y, channel)[1]
                        ELSE data[(y * width + x) * 4 + 3 + 1]]])

\* applyMedianFilter(imageData, kernelSize), kernelSize an integer: the
\* filtered buffer, or the error padImageData throws.  The window of pixel
\* (x, y) is the kernelSize x kernelSize block of the padded buffer whose top
\* left corner is (x, y); it is empty when kernelSize <= 0.
applyMedianFilter(img, kernelSize) ==
    LET width == img.width
        height == img.height
        data == img.data
        halfKernel == Floor(kernelSize, 2)
        paddedImageData == padImageData(img, halfKernel)
        paddedData == paddedImageData.data
        paddedWidth == paddedImageData.width
        count == IF kernelSize > 0 THEN kernelSize * kernelSize ELSE 0
        values(x, y, channel) == [j \in 1..count |->
            LET ky == (j - 1) \div kernelSize
                kx == (j - 1) % kernelSize
            IN  paddedData[((y + ky) * paddedWidth + (x + kx)) * 4 + channel + 1]]
    IN  IF PadRefused(img, halfKernel)
        THEN Thrown("padImageData")
        ELSE Returned([width |-> width, height |-> height,
                data |-> [k \in 1..Len(data) |->
                    LET x == ((k - 1) \div 4) % width
                        y == ((k - 1) \div 4) \div width
                        channel == (k - 1) % 4
                    IN  IF channel < 3
                        THEN Median(values(x, y, channel))
                        ELSE data[(y * width + x) * 4 + 3 + 1]]])

\* applyLaplacianFilter(imageData)
applyLaplacianFilter(img) ==
    applyKernelFilter(img, [matrix |-> << <<0, -1, 0>>, <<-1, 4, -1>>, <<0, -1, 0>> >>])

\* the loop of applyGaussianBlur: passes applications of the 1-2-1 kernel
RECURSIVE GaussianPasses(_, _)
GaussianPasses(result, passes) ==
    IF passes = 0
    THEN result
    ELSE GaussianPasses(
            applyKernelFilter(result,
                [matrix |-> << <<1, 2, 1>>, <<2, 4, 2>>, <<1, 2, 1>> >>, divisor |-> 16]).value,
            passes - 1)

\* applyGaussianBlur(imageData, sigma), sigma given in tenths:
\* passes = Math.max(1, Math.round(sigma))
applyGaussianBlur(img, sigmaTenths) ==
    Returned(GaussianPasses(img, Max(1, Round(sigmaTenths, 10))))
----------------------------------------------------------------------------
(* Filter worker: the message handler of the worker, and the in-process   *)
(* calls of the handlers.                                                  *)
(*                                                                         *)
(* A layer too large to enumerate pixel by pixel is a record               *)
(* [width, height, name]: name stands for its pixel data.  A filter that   *)
(* returns on such a layer returns a layer of the same size whose name     *)
(* records the filter, its argument and the name of the input.             *)

\* shouldUseWorker(imageData)
shouldUseWorker(img) == img.width * img.height > 250000

IsEnumerated(img) == "data" \in DOMAIN img

\* whether fn(imageData, arg) throws
FilterThrows(fn, img, arg) ==
    CASE fn = "applyKernelFilter" -> Len(arg.matrix) # 3 \/ Len(arg.matrix[1]) # 3
      [] fn = "applyMedianFilter" -> PadRefused(img, Floor(arg, 2))
      [] OTHER -> FALSE

\* fn(imageData, arg) for the four filters; sigma is given in tenths
Filter(fn, img, arg) ==
    IF IsEnumerated(img)
    THEN CASE fn = "applyKernelFilter" -> applyKernelFilter(img, arg)
           [] fn = "applyMedianFilter" -> applyMedianFilter(img, arg)
           [] fn = "applyGaussianBlur" -> applyGaussianBlur(img, arg)
           [] fn = "applyLaplacianFilter" -> applyLaplacianFilter(img)
    ELSE IF FilterThrows(fn, img, arg)
         THEN Thrown(fn)
         ELSE Returned([width |-> img.width, height |-> img.height,
                        name |-> CASE fn = "applyKernelFilter" ->
                                        [fn |-> fn, kernel |-> arg, of |-> img.name]
                                   [] fn = "applyMedianFilter" ->
                                        [fn |-> fn, kernelSize |-> arg, of |-> img.name]
                                   [] fn = "applyGaussianBlur" ->
                                        [fn |-> fn, sigma |-> arg, of |-> img.name]
                                   [] OTHER -> [fn |-> fn, of |-> img.name]])

\* the filter a message type names
FilterOf(type) ==
    CASE type = "APPLY_KERNEL_FILTER" -> "applyKernelFilter"
      [] type = "APPLY_MEDIAN_FILTER" -> "applyMedianFilter"
      [] type = "APPLY_GAUSSIAN_BLUR" -> "applyGaussianBlur"
      [] type = "APPLY_LAPLACIAN_FILTER" -> "applyLaplacianFilter"
      [] OTHER -> "unknown"

\* the handlers' in-process call for the message they built:
\* applyKernelFilter(imageData, kernel), applyMedianFilter(imageData, kernelSize),
\* applyGaussianBlur(imageData, sigma) or applyLaplacianFilter(imageData)
InProcessCall(data) ==
    Filter(FilterOf(data.type), data.imageData,
           CASE data.type = "APPLY_KERNEL_FILTER" -> data.params.kernel
             [] data.type = "APPLY_MEDIAN_FILTER" -> data.params.kernelSize
             [] data.type = "APPLY_GAUSSIAN_BLUR" -> data.params.sigma
             [] OTHER -> 0)

\* the response the worker posts for the outcome of its filter call
WorkerResponse(result) ==
    IF result.status = "returned"
    THEN [type |-> "SUCCESS", imageData |-> result.value]
    ELSE [type |-> "ERROR", error |-> result.error]

\* self.onmessage of the worker: the response posted for e.data.
\* params.kernelSize || 3 and params.sigma || 1.0 replace a missing and a
\* zero parameter by the default.
WorkerOnMessage(data) ==
    LET type == data.type
        image == data.imageData
        params == data.params
        arg ==
            CASE type = "APPLY_KERNEL_FILTER" -> params.kernel
              [] type = "APPLY_MEDIAN_FILTER" ->
                    IF "kernelSize" \in DOMAIN params /\ params.kernelSize # 0
                    THEN params.kernelSize ELSE 3
              [] type = "APPLY_GAUSSIAN_BLUR" ->
                    IF "sigma" \in DOMAIN params /\ params.sigma # 0
                    THEN params.sigma ELSE 10
              [] OTHER -> 0
    IN  WorkerResponse(
            IF FilterOf(type) = "unknown"
            THEN Thrown("unknown filter type")
            ELSE IF type = "APPLY_KERNEL_FILTER" /\ "kernel" \notin DOMAIN params
            THEN Thrown("no kernel")
            ELSE Filter(FilterOf(type), image, arg))

\* the messages the four handlers build for a layer's image
KernelMessage(img, kernel) ==
    [type |-> "APPLY_KERNEL_FILTER", imageData |-> img, params |-> [kernel |-> kernel]]

MedianMessage(img, kernelSize) ==
    [type |-> "APPLY_MEDIAN_FILTER", imageData |-> img, params |-> [kernelSize |-> kernelSize]]

GaussianMessage(img, sigma) ==
    [type |-> "APPLY_GAUSSIAN_BLUR", imageData |-> img, params |-> [sigma |-> sigma]]

LaplacianMessage(img) ==
    [type |-> "APPLY_LAPLACIAN_FILTER", imageData |-> img, params |-> << >>]
----------------------------------------------------------------------------
(* Compositor: blendColors, blendLayers *)

BlendModes == {"normal", "multiply", "screen", "overlay"}

\* layer opacities, in percent.  blendColors takes opacity / 100; the model
\* passes the percentage and counts it in halves, so that 1 is 0.5 and 2 is 1.
Opacities == {0, 50, 100}

\* the <<mode, overlay channel, base channel>> at which, for opacity 0.5 and
\* overlay alpha 255, the double (result * finalOpacity + base * (1 -
\* finalOpacity)) * 255 lands just below a half that the exact value reaches,
\* so that Math.round rounds down.  Complete for overlay channels 0, 14, 41,
\* 44, 76, 255, overlay alphas 0, 127, 128, 255 and opacities 0, 0.5, 1.
BlendBelowTie ==
    { <<"normal", 14, 19>>, <<"normal", 14, 23>>, <<"normal", 14, 27>>,
      <<"normal", 14, 31>>, <<"normal", 14, 69>>, <<"normal", 14, 77>>,
      <<"normal", 14, 85>>, <<"normal", 14, 93>>, <<"normal", 14, 101>>,
      <<"normal", 14, 109>>, <<"normal", 14, 251>>, <<"normal", 44, 1>>,
      <<"normal", 44, 5>>, <<"normal", 44, 9>>, <<"normal", 44, 13>>,
      <<"normal", 44, 17>>, <<"normal", 44, 89>>, <<"normal", 44, 105>>,
      <<"normal", 44, 121>>, <<"normal", 44, 137>>, <<"normal", 44, 139>>,
      <<"normal", 44, 153>>, <<"normal", 44, 155>>, <<"normal", 44, 169>>,
      <<"normal", 44, 171>>, <<"normal", 44, 185>>, <<"normal", 44, 187>>,
      <<"normal", 44, 201>>, <<"normal", 44, 203>>, <<"normal", 44, 235>>,
      <<"normal", 44, 251>>, <<"normal", 76, 73>>, <<"normal", 76, 89>>,
      <<"normal", 76, 105>>, <<"normal", 76, 121>>, <<"normal", 76, 137>>,
      <<"normal", 76, 139>>, <<"normal", 76, 153>>, <<"normal", 76, 155>>,
      <<"normal", 76, 169>>, <<"normal", 76, 171>>, <<"normal", 76, 203>>,
      <<"normal", 76, 219>>, <<"normal", 76, 235>>, <<"normal", 76, 251>>,
      <<"normal", 255, 40>>, <<"normal", 255, 72>>, <<"normal", 255, 104>>,
      <<"normal", 255, 136>>, <<"normal", 255, 138>>,
      <<"normal", 255, 168>>, <<"normal", 255, 170>>,
      <<"normal", 255, 200>>, <<"normal", 255, 202>>,
      <<"normal", 255, 232>>, <<"normal", 255, 234>>, <<"screen", 41, 0>>,
      <<"screen", 255, 40>>, <<"screen", 255, 72>>, <<"screen", 255, 104>>,
      <<"screen", 255, 136>>, <<"screen", 255, 138>>,
      <<"screen", 255, 168>>, <<"screen", 255, 170>>,
      <<"screen", 255, 200>>, <<"screen", 255, 202>>,
      <<"screen", 255, 232>>, <<"screen", 255, 234>>,
      <<"overlay", 0, 130>>, <<"overlay", 0, 138>>, <<"overlay", 0, 146>>,
      <<"overlay", 0, 154>>, <<"overlay", 0, 162>>, <<"overlay", 0, 170>>,
      <<"overlay", 0, 178>>, <<"overlay", 0, 184>>, <<"overlay", 0, 186>>,
      <<"overlay", 0, 194>>, <<"overlay", 0, 210>>, <<"overlay", 0, 216>>,
      <<"overlay", 0, 218>>, <<"overlay", 0, 226>>, <<"overlay", 0, 242>>,
      <<"overlay", 0, 248>>, <<"overlay", 0, 250>>, <<"overlay", 255, 11>>,
      <<"overlay", 255, 15>>, <<"overlay", 255, 19>>,
      <<"overlay", 255, 77>>, <<"overlay", 255, 89>>,
      <<"overlay", 255, 93>>, <<"overlay", 255, 109>>,
      <<"overlay", 255, 121>>, <<"overlay", 255, 125>>,
      <<"overlay", 255, 136>>, <<"overlay", 255, 138>>,
      <<"overlay", 255, 168>>, <<"overlay", 255, 170>>,
      <<"overlay", 255, 200>>, <<"overlay", 255, 202>>,
      <<"overlay", 255, 232>>, <<"overlay", 255, 234>> }

\* 255 * 255 * result of blendColors' switch for one channel
BlendResult(base, overlay, mode) ==
    CASE mode = "multiply" -> base * overlay
      [] mode = "screen" -> 255 * 255 - (255 - base) * (255 - overlay)
      [] mode = "overlay" ->
            IF base <= 127
            THEN 2 * base * overlay
            ELSE 255 * 255 - 2 * (255 - base) * (255 - overlay)
      [] OTHER -> 255 * overlay

\* one colour channel of blendColors: finalOpacity = (oa / 255) * opacity,
\* Math.round((result * finalOpacity + base * (1 - finalOpacity)) * 255),
\* clamped to 0..255
BlendChannel(base, overlay, oa, mode, opacity) ==
    LET halves == opacity \div 50
        exact == Round(BlendResult(base, overlay, mode) * oa * halves
                       + 255 * base * (510 - oa * halves), 255 * 510)
    IN  Clamp255(IF halves = 1 /\ oa = 255 /\ <<mode, overlay, base>> \in BlendBelowTie
                 THEN exact - 1
                 ELSE exact)

\* blendColors whose alpha is the overlay's alpha scaled by the opacity
OverlayAlphaBlendColors(base, overlay, mode, opacity) ==
    << BlendChannel(base[1], overlay[1], overlay[4], mode, opacity),
       BlendChannel(base[2], overlay[2], overlay[4], mode, opacity),
       BlendChannel(base[3], overlay[3], overlay[4], mode, opacity),
       Clamp255(Round(overlay[4] * (opacity \div 50), 2)) >>

\* blendColors(base, overlay, mode, opacity / 100): the colour [r, g, b, a]
blendColors(base, overlay, mode, opacity) ==
    LET oa == overlay[4]
        halves == opacity \div 50
    IN  << BlendChannel(base[1], overlay[1], oa, mode, opacity),
           BlendChannel(base[2], overlay[2], oa, mode, opacity),
           BlendChannel(base[3], overlay[3], oa, mode, opacity),
           Clamp255(Round(Max(2 * base[4], oa * halves), 2)) >>

\* the loop over the visible layers for the output pixel (x, y), from layer
\* i on, currentPixel being the colour accumulated so far
RECURSIVE BlendPixel(_, _, _, _, _)
BlendPixel(visibleLayers, i, x, y, currentPixel) ==
    IF i > Len(visibleLayers)
    THEN currentPixel
    ELSE LET visibleLayer == visibleLayers[i]
             layerData == visibleLayer.imageData.data
             layerWidth == visibleLayer.imageData.width
             layerHeight == visibleLayer.imageData.height
             layerPixelIndex == (y * layerWidth + x) * 4
             layerPixel == << layerData[layerPixelIndex + 1], layerData[layerPixelIndex + 2],
                              layerData[layerPixelIndex + 3], layerData[layerPixelIndex + 4] >>
         IN  BlendPixel(visibleLayers, i + 1, x, y,
                IF x < layerWidth /\ y < layerHeight /\ layerPixelIndex + 3 < Len(layerData)
                THEN IF i = 1 \/ currentPixel[4] = 0
                     THEN << layerPixel[1], layerPixel[2], layerPixel[3],
                             Round(layerPixel[4] * (visibleLayer.opacity \div 50), 2) >>
                     ELSE blendColors(currentPixel, layerPixel, visibleLayer.blendMode, visibleLayer.opacity)
                ELSE currentPixel)

\* the pixel loop of blendLayers over the layers given
Compose(visibleLayers, width, height) ==
    [width |-> width, height |-> height,
     data |-> [k \in 1..(width * height * 4) |->
        BlendPixel(visibleLayers, 1, ((k - 1) \div 4) % width, ((k - 1) \div 4) \div width,
                   <<0, 0, 0, 0>>)[((k - 1) % 4) + 1]]]

VisibleLayers(layerList) ==
    LET IsVisible(each) == each.visible
    IN  SelectSeq(layerList, IsVisible)

\* blendLayers with the hidden layers composed like the visible ones
UnfilteredBlendLayers(layerList, width, height) ==
    Returned(Compose(layerList, width, height))

\* blendLayers whose layers repeat beyond their right and bottom edges
TilingBlendLayers(layerList, width, height) ==
    Returned(Compose(
        [i \in 1..Len(VisibleLayers(layerList)) |->
            LET visibleLayer == VisibleLayers(layerList)[i]
                img == visibleLayer.imageData
            IN  [visibleLayer EXCEPT !.imageData =
                    [width |-> width, height |-> height,
                     data |-> [k \in 1..(width * height * 4) |->
                        Channel(img, (((k - 1) \div 4) % width) % img.width,
                                     (((k - 1) \div 4) \div width) % img.height,
                                     (k - 1) % 4)]]]],
        width, height))

\* blendLayers(layers, width, height): a transparent buffer of the canvas
\* size when no layer is visible, the composition of the visible layers
\* otherwise
blendLayers(layerList, width, height) ==
    IF Len(VisibleLayers(layerList)) = 0
    THEN Returned([width |-> width, height |-> height,
                   data |-> [k \in 1..(width * height * 4) |-> 0]])
    ELSE Returned(Compose(VisibleLayers(layerList), width, height))
----------------------------------------------------------------------------
(* Colour spaces: rgbToXYZ, xyzToRGB                                       *)
(*                                                                         *)
(* An RGB colour is a record [r, g, b] of integers.  An XYZ colour is a    *)
(* record [x, y, z] of integers that count hundredths: [x |-> 9505] is     *)
(* X = 95.05.  xyzToRGB is computed exactly on such a colour: the matrix   *)
(* products are formed in limbs of three decimal digits, and the gamma     *)
(* encoding, the clamp and Math.round are one step function of the         *)
(* product, given by the products at which its value changes.  rgbToXYZ    *)
(* returns a double; the model keeps it to two decimals.                    *)

\* the matrix of xyzToRGB, row by row, in units of 10^-9
XyzToRgbMatrix ==
    << <<32404542, -15371385, -4985314>>,
       <<-9692660, 18760108, 41952>>,
       <<556434, -2040259, 10572252>> >>

\* the matrix of rgbToXYZ, row by row, in units of 10^-7
RgbToXyzMatrix ==
    << <<4124564, 3575761, 1804375>>,
       <<2126729, 7151522, 721750>>,
       <<193339, 1191920, 9503041>> >>

\* xyz.x * row[1] + xyz.y * row[2] + xyz.z * row[3] as the pair
\* <<millions, rest>> with 0 <= rest < 10^6: the value of r, g or b before
\* the division by 100 is (millions * 10^6 + rest) * 10^-11
MatrixProduct(row, xyz) ==
    LET v == <<xyz.x, xyz.y, xyz.z>>
        high == v[1] * (row[1] \div 1000000) + v[2] * (row[2] \div 1000000)
                    + v[3] * (row[3] \div 1000000)
        middle == v[1] * ((row[1] % 1000000) \div 1000)
                    + v[2] * ((row[2] % 1000000) \div 1000)
                    + v[3] * ((row[3] % 1000000) \div 1000)
        low == v[1] * (row[1] % 1000) + v[2] * (row[2] % 1000) + v[3] * (row[3] % 1000)
        carried == middle + (low \div 1000)
    IN  << high + (carried \div 1000), (carried % 1000) * 1000 + (low % 1000) >>

\* GammaThresholds[v], for v in 1..255, is the least product, as a pair
\* <<millions, rest>>, whose hundredth part r gives
\* Math.round(Math.max(0, Math.min(1, r > 0.0031308 ? 1.055 * Math.pow(r, 1 / 2.4) - 0.055 : 12.92 * r)) * 255) >= v
GammaThresholds ==
    << <<1517, 634918>>, <<4552, 904754>>, <<7588, 174589>>,
       <<10623, 444425>>, <<13658, 714260>>, <<16693, 984096>>,
       <<19729, 253931>>, <<22764, 523767>>, <<25799, 793602>>,
       <<28835, 63438>>, <<31883, 9045>>, <<35092, 593496>>,
       <<38483, 149331>>, <<42057, 480302>>, <<45818, 327406>>,
       <<49768, 372503>>, <<53910, 241599>>, <<58246, 507841>>,
       <<62779, 694270>>, <<67512, 276335>>, <<72446, 684222>>,
       <<77585, 304987>>, <<82930, 484548>>, <<88484, 529517>>,
       <<94249, 708913>>, <<100228, 255749>>, <<106422, 368520>>,
       <<112834, 212589>>, <<119465, 921486>>, <<126319, 598126>>,
       <<133397, 315954>>, <<140701, 120022>>, <<148233, 28001>>,
       <<155995, 31139>>, <<163989, 95163>>, <<172217, 161133>>,
       <<180681, 146252>>, <<189382, 944632>>, <<198324, 428019>>,
       <<207507, 446487>>, <<216933, 829093>>, <<226605, 384499>>,
       <<236523, 901574>>, <<246691, 149956>>, <<257108, 880594>>,
       <<267778, 826268>>, <<278702, 702082>>, <<289882, 205936>>,
       <<301319, 18978>>, <<313014, 806041>>, <<324971, 216055>>,
       <<337189, 882447>>, <<349672, 423526>>, <<362420, 442847>>,
       <<375435, 529564>>, <<388719, 258774>>, <<402273, 191841>>,
       <<416098, 876710>>, <<430197, 848211>>, <<444571, 628354>>,
       <<459221, 726606>>, <<474149, 640165>>, <<489356, 854223>>,
       <<504844, 842220>>, <<520615, 66084>>, <<536668, 976476>>,
       <<553008, 13011>>, <<569633, 604482>>, <<586547, 169077>>,
       <<603750, 114583>>, <<621243, 838587>>, <<639029, 728674>>,
       <<657109, 162612>>, <<675483, 508535>>, <<694154, 125126>>,
       <<713122, 361782>>, <<732389, 558785>>, <<751957, 47464>>,
       <<771826, 150354>>, <<791998, 181346>>, <<812474, 445839>>,
       <<833256, 240883>>, <<854344, 855321>>, <<875741, 569926>>,
       <<897447, 657533>>, <<919464, 383170>>, <<941793, 4185>>,
       <<964434, 770367>>, <<987390, 924070>>, <<1010662, 700324>>,
       <<1034251, 326954>>, <<1058158, 24688>>, <<1082384, 7267>>,
       <<1106930, 481551>>, <<1131798, 647620>>, <<1156989, 698876>>,
       <<1182504, 822141>>, <<1208345, 197754>>, <<1234511, 999662>>,
       <<1261006, 395513>>, <<1287829, 546746>>, <<1314982, 608678>>,
       <<1342466, 730587>>, <<1370283, 55799>>, <<1398432, 721767>>,
       <<1426916, 860153>>, <<1455736, 596901>>, <<1484893, 52322>>,
       <<1514387, 341158>>, <<1544220, 572665>>, <<1574393, 850679>>,
       <<1604908, 273685>>, <<1635764, 934890>>, <<1666964, 922288>>,
       <<1698509, 318724>>, <<1730399, 201961>>, <<1762635, 644742>>,
       <<1795219, 714853>>, <<1828152, 475181>>, <<1861434, 983777>>,
       <<1895068, 293911>>, <<1929053, 454130>>, <<1963391, 508318>>,
       <<1998083, 495743>>, <<2033130, 451119>>, <<2068533, 404655>>,
       <<2104293, 382104>>, <<2140411, 404823>>, <<2176888, 489812>>,
       <<2213725, 649771>>, <<2250923, 893146>>, <<2288484, 224174>>,
       <<2326407, 642934>>, <<2364695, 145387>>, <<2403347, 723427>>,
       <<2442366, 364920>>, <<2481752, 53749>>, <<2521505, 769859>>,
       <<2561628, 489294>>, <<2602121, 184242>>, <<2642984, 823074>>,
       <<2684220, 370385>>, <<2725828, 787028>>, <<2767811, 30160>>,
       <<2810168, 53275>>, <<2852900, 806241>>, <<2896010, 235338>>,
       <<2939497, 283294>>, <<2983362, 889319>>, <<3027607, 989142>>,
       <<3072233, 515043>>, <<3117240, 395887>>, <<3162629, 557158>>,
       <<3208401, 920992>>, <<3254558, 406208>>, <<3301099, 928339>>,
       <<3348027, 399667>>, <<3395341, 729246>>, <<3443043, 822942>>,
       <<3491134, 583456>>, <<3539614, 910353>>, <<3588485, 700095>>,
       <<3637747, 846068>>, <<3687402, 238607>>, <<3737449, 765027>>,
       <<3787891, 309650>>, <<3838727, 753829>>, <<3889959, 975978>>,
       <<3941588, 851595>>, <<3993615, 253290>>, <<4046040, 50807>>,
       <<4098864, 111054>>, <<4152088, 298124>>, <<4205713, 473318>>,
       <<4259740, 495172>>, <<4314170, 219482>>, <<4369003, 499320>>,
       <<4424241, 185064>>, <<4479884, 124419>>, <<4535933, 162438>>,
       <<4592389, 141542>>, <<4649252, 901547>>, <<4706525, 279682>>,
       <<4764207, 110611>>, <<4822299, 226452>>, <<4880802, 456801>>,
       <<4939717, 628749>>, <<4999045, 566905>>, <<5058787, 93412>>,
       <<5118943, 27973>>, <<5179514, 187862>>, <<5240501, 387948>>,
       <<5301905, 440714>>, <<5363727, 156276>>, <<5425967, 342395>>,
       <<5488626, 804505>>, <<5551706, 345723>>, <<5615206, 766870>>,
       <<5679128, 866488>>, <<5743473, 440857>>, <<5808241, 284013>>,
       <<5873433, 187762>>, <<5939049, 941700>>, <<6005092, 333228>>,
       <<6071561, 147566>>, <<6138457, 167774>>, <<6205781, 174762>>,
       <<6273533, 947312>>, <<6341716, 262087>>, <<6410328, 893649>>,
       <<6479372, 614477>>, <<6548848, 194978>>, <<6618756, 403502>>,
       <<6689098, 6358>>, <<6759873, 767828>>, <<6831084, 450183>>,
       <<6902730, 813692>>, <<6974813, 616641>>, <<7047333, 615345>>,
       <<7120291, 564161>>, <<7193688, 215502>>, <<7267524, 319851>>,
       <<7341800, 625772>>, <<7416517, 879926>>, <<7491676, 827082>>,
       <<7567278, 210129>>, <<7643322, 770090>>, <<7719811, 246134>>,
       <<7796744, 375591>>, <<7874122, 893957>>, <<7951947, 534913>>,
       <<8030219, 30336>>, <<8108938, 110307>>, <<8188105, 503126>>,
       <<8267721, 935323>>, <<8347788, 131668>>, <<8428304, 815183>>,
       <<8509272, 707155>>, <<8590692, 527146>>, <<8672564, 993001>>,
       <<8754890, 820863>>, <<8837670, 725183>>, <<8920905, 418729>>,
       <<9004595, 612595>>, <<9088742, 16218>>, <<9173345, 337381>>,
       <<9258406, 282227>>, <<9343925, 555269>>, <<9429903, 859397>>,
       <<9516341, 895894>>, <<9603240, 364440>>, <<9690599, 963122>>,
       <<9778421, 388449>>, <<9866705, 335354>>, <<9955452, 497211>> >>

\* the channel xyzToRGB returns for a matrix product: r /= 100, the gamma
\* encoding, the clamp to [0, 1], the scaling by 255 and Math.round
GammaLevel(product) ==
    Cardinality({ v \in 1..255 :
        \/ product[1] > GammaThresholds[v][1]
        \/ product[1] = GammaThresholds[v][1] /\ product[2] >= GammaThresholds[v][2] })

\* xyzToRGB(xyz)
xyzToRGB(xyz) ==
    [r |-> GammaLevel(MatrixProduct(XyzToRgbMatrix[1], xyz)),
     g |-> GammaLevel(MatrixProduct(XyzToRgbMatrix[2], xyz)),
     b |-> GammaLevel(MatrixProduct(XyzToRgbMatrix[3], xyz))]

\* SrgbLinear[c + 1], for a channel c in 0..255, is the gamma-decoded channel
\* times 100, (c / 255 > 0.04045 ? Math.pow((c / 255 + 0.055) / 1.055, 2.4) : c / 255 / 12.92) * 100,
\* in units of 10^-6
SrgbLinear ==
    << 0, 30353, 60705, 91058, 121411, 151763, 182116, 212469, 242822,
       273174, 303527, 334654, 367651, 402472, 439144, 477695, 518152,
       560539, 604883, 651209, 699541, 749903, 802319, 856813, 913406,
       972122, 1032982, 1096009, 1161225, 1228649, 1298303, 1370208, 1444384,
       1520851, 1599629, 1680738, 1764195, 1850022, 1938236, 2028856,
       2121901, 2217388, 2315337, 2415763, 2518686, 2624122, 2732089,
       2842604, 2955683, 3071344, 3189603, 3310477, 3433981, 3560131,
       3688945, 3820437, 3954624, 4091520, 4231141, 4373503, 4518620,
       4666509, 4817182, 4970657, 5126946, 5286065, 5448028, 5612849,
       5780543, 5951124, 6124605, 6301002, 6480327, 6662594, 6847817,
       7036010, 7227185, 7421357, 7618538, 7818742, 8021982, 8228271,
       8437621, 8650046, 8865559, 9084171, 9305896, 9530747, 9758735,
       9989873, 10224173, 10461648, 10702310, 10946171, 11193243, 11443537,
       11697067, 11953843, 12213877, 12477182, 12743768, 13013648, 13286832,
       13563333, 13843162, 14126329, 14412847, 14702727, 14995979, 15292615,
       15592646, 15896084, 16202938, 16513219, 16826940, 17144110, 17464740,
       17788842, 18116424, 18447499, 18782077, 19120168, 19461783, 19806932,
       20155625, 20507874, 20863687, 21223076, 21586050, 21952620, 22322796,
       22696587, 23074005, 23455058, 23839757, 24228112, 24620133, 25015828,
       25415209, 25818285, 26225066, 26635560, 27049779, 27467731, 27889426,
       28314874, 28744084, 29177065, 29613827, 30054379, 30498731, 30946892,
       31398871, 31854678, 32314321, 32777810, 33245154, 33716362, 34191442,
       34670406, 35153260, 35640014, 36130678, 36625260, 37123768, 37626212,
       38132601, 38642943, 39157248, 39675523, 40197778, 40724021, 41254261,
       41788507, 42326767, 42869050, 43415364, 43965717, 44520119, 45078578,
       45641102, 46207700, 46778380, 47353150, 47932018, 48514994, 49102085,
       49693300, 50288646, 50888132, 51491767, 52099557, 52711513, 53327640,
       53947949, 54572446, 55201140, 55834039, 56471151, 57112483, 57758044,
       58407842, 59061884, 59720179, 60382734, 61049557, 61720656, 62396039,
       63075714, 63759687, 64447968, 65140564, 65837482, 66538730, 67244316,
       67954247, 68668531, 69387176, 70110189, 70837578, 71569350, 72305513,
       73046074, 73791041, 74540421, 75294222, 76052450, 76815115, 77582222,
       78353779, 79129794, 79910274, 80695226, 81484657, 82278575, 83076988,
       83879901, 84687323, 85499261, 86315721, 87136712, 87962240, 88792312,
       89626935, 90466117, 91309865, 92158186, 93011086, 93868573, 94730654,
       95597335, 96468625, 97344529, 98225055, 99110210, 100000000 >>

\* one component of rgbToXYZ, in hundredths: the row of the matrix applied
\* to the three decoded channels, rounded to two decimals
XyzComponent(row, rgb) ==
    LET lin == << SrgbLinear[rgb.r + 1], SrgbLinear[rgb.g + 1], SrgbLinear[rgb.b + 1] >>
        \* in units of 10^-5 and of 10^-9
        high == (lin[1] \div 10000) * (row[1] \div 10000)
                    + (lin[2] \div 10000) * (row[2] \div 10000)
                    + (lin[3] \div 10000) * (row[3] \div 10000)
        middle == (lin[1] \div 10000) * (row[1] % 10000) + (lin[1] % 10000) * (row[1] \div 10000)
                    + (lin[2] \div 10000) * (row[2] % 10000) + (lin[2] % 10000) * (row[2] \div 10000)
                    + (lin[3] \div 10000) * (row[3] % 10000) + (lin[3] % 10000) * (row[3] \div 10000)
    IN  Round(high + (middle \div 10000), 1000)

\* rgbToXYZ(rgb)
rgbToXYZ(rgb) ==
    [x |-> XyzComponent(RgbToXyzMatrix[1], rgb),
     y |-> XyzComponent(RgbToXyzMatrix[2], rgb),
     z |-> XyzComponent(RgbToXyzMatrix[3], rgb)]

----------------------------------------------------------------------------
(* Inputs *)

\* buffers encodeGB7 must refuse: a zero side, a side over the limit (with
\* data of the matching length), data shorter or longer than width*height*4
RefusedImages ==
    { [width |-> 0, height |-> 0, data |-> <<>>],
      [width |-> 0, height |-> 2, data |-> <<>>],
      [width |-> 2, height |-> 0, data |-> <<>>],
      [width |-> 0, height |-> 1, data |-> <<10, 20, 30, 255>>],
      [width |-> 1, height |-> 1, data |-> <<>>],
      [width |-> 1, height |-> 1, data |-> <<10, 20, 30>>],
      [width |-> 1, height |-> 1, data |-> <<10, 20, 30, 255, 40>>],
      [width |-> 2, height |-> 1, data |-> <<10, 20, 30, 255>>],
      [width |-> 1, height |-> 2, data |-> <<10, 20, 30, 255, 40, 50, 60, 100, 70, 80, 90, 0>>],
      UniformImage(MAX_DIMENSION + 1, 1, 200),
      UniformImage(1, MAX_DIMENSION + 1, 200) }

\* buffers whose width or height needs both bytes of the header field, opaque
\* and not
WideImages == { UniformImage(300, 1, 200), UniformImage(1, 258, 100) }

EncoderInputs ==
    PaletteImages(MaxPixels) \cup GrayImages(MaxPixels) \cup RefusedImages \cup WideImages

\* buffers of up to MaxDim x MaxDim pixels whose four channels all vary from
\* pixel to pixel
RampImage(w, h, r0) ==
    MakeImage(w, h, [i \in 1..(w * h) |->
        << (r0 + 37 * (i - 1)) % 256, (r0 + 50 + 101 * (i - 1)) % 256,
           255 - ((r0 + 37 * (i - 1)) % 256), (7 * r0 + 61 * (i - 1)) % 256 >>])

RampImages == { RampImage(w, h, r0) : w \in 1..MaxDim, h \in 1..MaxDim, r0 \in {0, 100, 200} }

\* a row and a column of 30 pixels, each pixel of its own gray
LongImages == { GrayImage(30, 1, 0, 7), GrayImage(1, 30, 3, 5) }

ResizeInputs == PaletteImages(MaxPixels) \cup LongImages

\* the destination sizes and methods explored for a source: every shape and
\* method for the enumerated buffers; for the long ones the nearest method
\* only, onto 22 and onto 4 pixels
ResizeCalls(img) ==
    IF img \in LongImages
    THEN { <<dest, "nearest">> : dest \in { <<22, 1>>, <<1, 22>>, <<4, 1>>, <<1, 4>> } }
    ELSE Shapes(MaxPixels) \X Methods

\* buffers of at least 2x2 pixels whose R, G and B are a constant c except at
\* one pixel, the noise, at any position
NoisePixels == { <<255, 255, 255, 255>>, <<0, 0, 0, 255>>, <<255, 0, 100, 0>> }

NoiseImage(w, h, c, at, noise) ==
    MakeImage(w, h, [i \in 1..(w * h) |-> IF i = at THEN noise ELSE <<c, c, c, 255>>])

NoiseImages ==
    UNION { { NoiseImage(w, h, c, at, noise) : at \in 1..(w * h) } :
            w \in 2..MaxDim, h \in 2..MaxDim, c \in {0, 100, 255}, noise \in NoisePixels }

\* the filters run on the palette buffers of fewer than MaxPixels pixels, the
\* ramp buffers and the noise buffers
FilterInputs == PaletteImages(MaxPixels - 1) \cup RampImages \cup NoiseImages

\* kernelSize arguments of applyMedianFilter: negative, zero, 1, even, 3
KernelSizes == {-3, -1, 0, 1, 2, 3}

\* sigma arguments of applyGaussianBlur, in tenths: 0, 1.0, 1.5, 2.4, 2.5
Sigmas == {0, 10, 15, 24, 25}

\* padSize arguments of padImageData
PadSizes == 0..2

\* kernels whose matrix is not three rows of three entries: the 2x2 matrix of
\* the test suite, no row, four rows, a first row that is short or empty, and
\* three rows of which the second is short, the third is short or the third
\* is long
MalformedKernels ==
    { [matrix |-> << <<1, 2>>, <<3, 4>> >>],
      [matrix |-> << >>],
      [matrix |-> << <<0, 0, 0>>, <<0, 1, 0>>, <<0, 0, 0>>, <<0, 0, 0>> >>],
      [matrix |-> << <<0, 0>>, <<0, 1, 0>>, <<0, 0, 0>> >>],
      [matrix |-> << << >>, <<0, 1, 0>>, <<0, 0, 0>> >>],
      [matrix |-> << <<0, 0, 0>>, <<0, 1>>, <<0, 0, 0>> >>],
      [matrix |-> << <<0, 0, 0>>, <<0, 1, 0>>, <<0, 0>> >>],
      [matrix |-> << <<0, 0, 0>>, <<0, 1, 0>>, <<0, 0, 0, 7>> >>] }

\* 3x3 kernels with a zero divisor (sums that are positive, zero and
\* negative) and with a negative one
DivisorKernels ==
    { [matrix |-> << <<0, 0, 0>>, <<0, 1, 0>>, <<0, 0, 0>> >>, divisor |-> 0],
      [matrix |-> << <<0, -1, 0>>, <<-1, 4, -1>>, <<0, -1, 0>> >>, divisor |-> 0, offset |-> 10],
      [matrix |-> << <<0, 0, 0>>, <<0, 1, 0>>, <<0, 0, 0>> >>, divisor |-> -1, offset |-> 255] }

\* kernels handed to applyKernelFilter: the presets, the identity kernel
\* with its divisor and offset spelled out, and the kernels above
Kernels ==
    { FILTER_PRESETS[i] : i \in 1..Len(FILTER_PRESETS) }
    \cup { [matrix |-> << <<0, 0, 0>>, <<0, 1, 0>>, <<0, 0, 0>> >>, divisor |-> 1, offset |-> 0] }
    \cup MalformedKernels \cup DivisorKernels

----------------------------------------------------------------------------
(* Specifications.  Every engine function is a pure function of the buffer *)
(* it is given: one specification per component draws the inputs and runs  *)
(* the component's operations on them.                                     *)

IdleGB7 == encoded = None /\ file = <<>> /\ parsed = None

IdleResize == resized = None

IdleCurves == point1 = NoPoint /\ point2 = NoPoint /\ lut = None

IdleFilters == filtered = None

IdleWorker == message = None /\ response = None /\ fallback = None

IdleHandler ==
    /\ layer = NoImage /\ calls = <<>> /\ workers = <<>> /\ busyWorkers = {}
    /\ maxWorkers = 0 /\ inbox = <<>> /\ outbox = <<>> /\ listeners = <<>> /\ errors = <<>>

IdleBlend == layers = <<>> /\ canvas = NoImage /\ blended = None

IdleColors == colors = None /\ mixed = None

IdleSpaces == rgbColor = None /\ xyzColor = None /\ rgbBack = None

IdleHeap == heap = <<>> /\ transform = None /\ returned = None

IdleEditor ==
    /\ editorLayers = <<>> /\ activeLayerId = NullId /\ queuedLayers = <<>>
    /\ queuedActive = <<>> /\ nextLayerId = 0

IdleLate == IdleHeap /\ IdleEditor

IdleMore == IdleColors /\ IdleSpaces /\ IdleLate

IdleLater == IdleWorker /\ IdleHandler /\ IdleBlend /\ IdleMore

\* --- GB7 codec: an export (encode, then the file is opened again), or a
\* file of any origin being opened
InitGB7 ==
    /\ \/ pc = "encode" /\ imageData \in EncoderInputs /\ file = <<>>
       \/ pc = "parse" /\ imageData = NoImage /\ file \in GB7Files
    /\ encoded = None /\ parsed = None
    /\ IdleResize /\ IdleCurves /\ IdleFilters /\ IdleLater

EncodeGB7 ==
    /\ pc = "encode"
    /\ encoded' = encodeGB7(imageData)
    /\ pc' = IF encoded'.status = "returned" THEN "reopen" ELSE "done"
    /\ UNCHANGED <<imageData, file, parsed, resized, point1, point2, lut, filtered,
                 workerVars, handlerVars, blendVars, moreVars>>

\* the exported byte stream is the file opened next
ReopenFile ==
    /\ pc = "reopen"
    /\ file' = encoded.value
    /\ pc' = "parse"
    /\ UNCHANGED <<imageData, encoded, parsed, resized, point1, point2, lut, filtered,
                 workerVars, handlerVars, blendVars, moreVars>>

ParseGB7File ==
    /\ pc = "parse"
    /\ parsed' = parseGB7File(file)
    /\ pc' = "done"
    /\ UNCHANGED <<imageData, encoded, file, resized, point1, point2, lut, filtered,
                 workerVars, handlerVars, blendVars, moreVars>>

NextGB7 == EncodeGB7 \/ ReopenFile \/ ParseGB7File

SpecGB7 == InitGB7 /\ [][NextGB7]_vars

\* --- Resampler
InitResize ==
    /\ pc = "resize" /\ imageData \in ResizeInputs
    /\ resized = None
    /\ IdleGB7 /\ IdleCurves /\ IdleFilters /\ IdleLater

\* ResizeHandler: resizeImage(layer.imageData, its width, its height, width, height, method)
ResizeImage ==
    /\ pc = "resize"
    /\ \E call \in ResizeCalls(imageData) :
        LET dest == call[1]
            method == call[2]
        IN  resized' = [status |-> "returned", destWidth |-> dest[1], destHeight |-> dest[2],
                        method |-> method,
                        value |-> resizeImage(imageData, imageData.width, imageData.height,
                                    dest[1], dest[2],
                                    IF method = "default" THEN "bilinear" ELSE method)]
    /\ pc' = "done"
    /\ UNCHANGED <<imageData, encoded, file, parsed, point1, point2, lut, filtered,
                 workerVars, handlerVars, blendVars, moreVars>>

NextResize == ResizeImage

SpecResize == InitResize /\ [][NextResize]_vars

\* --- Tone curves
InitCurves ==
    /\ pc = "curves" /\ point1 \in CurvePoints /\ point2 \in CurvePoints
    /\ lut = None /\ imageData = NoImage
    /\ IdleGB7 /\ IdleResize /\ IdleFilters /\ IdleLater

CreateLookupTable ==
    /\ pc = "curves"
    /\ lut' = Returned(createLookupTable(point1, point2))
    /\ pc' = "done"
    /\ UNCHANGED <<imageData, encoded, file, parsed, resized, point1, point2, filtered,
                 workerVars, handlerVars, blendVars, moreVars>>

NextCurves == CreateLookupTable

SpecCurves == InitCurves /\ [][NextCurves]_vars

\* --- Filters
InitFilters ==
    /\ pc = "filter" /\ imageData \in FilterInputs
    /\ filtered = None
    /\ IdleGB7 /\ IdleResize /\ IdleCurves /\ IdleLater

ApplyKernelFilter ==
    /\ pc = "filter"
    /\ \E kernel \in Kernels :
        filtered' = [op |-> "applyKernelFilter", kernel |-> kernel,
                     outcome |-> applyKernelFilter(imageData, kernel)]
    /\ pc' = "done"
    /\ UNCHANGED <<imageData, encoded, file, parsed, resized, point1, point2, lut,
                 workerVars, handlerVars, blendVars, moreVars>>

ApplyMedianFilter ==
    /\ pc = "filter"
    /\ \E kernelSize \in KernelSizes :
        filtered' = [op |-> "applyMedianFilter", kernelSize |-> kernelSize,
                     outcome |-> applyMedianFilter(imageData, kernelSize)]
    /\ pc' = "done"
    /\ UNCHANGED <<imageData, encoded, file, parsed, resized, point1, point2, lut,
                 workerVars, handlerVars, blendVars, moreVars>>

ApplyLaplacianFilter ==
    /\ pc = "filter"
    /\ filtered' = [op |-> "applyLaplacianFilter",
                    outcome |-> applyLaplacianFilter(imageData)]
    /\ pc' = "done"
    /\ UNCHANGED <<imageData, encoded, file, parsed, resized, point1, point2, lut,
                 workerVars, handlerVars, blendVars, moreVars>>

ApplyGaussianBlur ==
    /\ pc = "filter"
    /\ \E sigma \in Sigmas :
        filtered' = [op |-> "applyGaussianBlur", sigma |-> sigma,
                     outcome |-> applyGaussianBlur(imageData, sigma)]
    /\ pc' = "done"
    /\ UNCHANGED <<imageData, encoded, file, parsed, resized, point1, point2, lut,
                 workerVars, handlerVars, blendVars, moreVars>>

\* the padding step of the filters, on its own
PadImageData ==
    /\ pc = "filter"
    /\ \E padSize \in PadSizes :
        filtered' = [op |-> "padImageData", padSize |-> padSize,
                     outcome |-> Returned(padImageData(imageData, padSize))]
    /\ pc' = "done"
    /\ UNCHANGED <<imageData, encoded, file, parsed, resized, point1, point2, lut,
                 workerVars, handlerVars, blendVars, moreVars>>

NextFilters ==
    \/ ApplyKernelFilter
    \/ ApplyMedianFilter
    \/ ApplyLaplacianFilter
    \/ ApplyGaussianBlur
    \/ PadImageData

SpecFilters == InitFilters /\ [][NextFilters]_vars


\* --- Filter worker: a handler builds the message for a layer's image, the
\* worker answers it, and the handler's in-process call is made with the same
\* image and parameters
WorkerInputs == RampImages \cup NoiseImages

\* kernels a handler passes on: presets, a 2x2 matrix, a zero divisor
WorkerKernels ==
    { FILTER_PRESETS[1], FILTER_PRESETS[3],
      [matrix |-> << <<1, 2>>, <<3, 4>> >>],
      [matrix |-> << <<0, 0, 0>>, <<0, 1, 0>>, <<0, 0, 0>> >>, divisor |-> 0] }

MessagesFor(img) ==
    { KernelMessage(img, kernel) : kernel \in WorkerKernels }
    \cup { MedianMessage(img, kernelSize) : kernelSize \in KernelSizes }
    \cup { GaussianMessage(img, sigma) : sigma \in Sigmas }
    \cup { LaplacianMessage(img) }

InitWorker ==
    /\ pc = "post" /\ imageData \in WorkerInputs
    /\ message = None /\ response = None /\ fallback = None
    /\ IdleGB7 /\ IdleResize /\ IdleCurves /\ IdleFilters /\ IdleHandler /\ IdleBlend
    /\ IdleMore

\* the handler builds the message
BuildMessage ==
    /\ pc = "post"
    /\ message' \in MessagesFor(imageData)
    /\ pc' = "onmessage"
    /\ UNCHANGED <<imageData, encoded, file, parsed, resized, point1, point2, lut, filtered,
                   response, fallback, handlerVars, blendVars, moreVars>>

\* the worker handles it
OnMessage ==
    /\ pc = "onmessage"
    /\ response' = WorkerOnMessage(message)
    /\ pc' = "fallback"
    /\ UNCHANGED <<imageData, encoded, file, parsed, resized, point1, point2, lut, filtered,
                   message, fallback, handlerVars, blendVars, moreVars>>

\* the handler's catch block makes the in-process call
InProcessFallback ==
    /\ pc = "fallback"
    /\ fallback' = InProcessCall(message)
    /\ pc' = "done"
    /\ UNCHANGED <<imageData, encoded, file, parsed, resized, point1, point2, lut, filtered,
                   message, response, handlerVars, blendVars, moreVars>>

NextWorker == BuildMessage \/ OnMessage \/ InProcessFallback

SpecWorker == InitWorker /\ [][NextWorker]_vars

\* --- Filter handlers and the worker pool.  MaxCalls invocations of the
\* handlers run on one active layer; each is suspended at its awaits, where
\* the other invocations, the workers and the timers take their steps.
MaxCalls == 1

Calls == 1..MaxCalls

\* a worker is named by its position in FilterWorkerPool.workers
WorkerIds == 1..MaxCalls

\* navigator.hardwareConcurrency; 0 stands for a missing value
HardwareConcurrencies == {0, 1, 16}

\* an active layer above the worker threshold (two shapes), one at the
\* threshold, and an active layer without image data
HandlerLayers ==
    { [width |-> 501, height |-> 500, name |-> [fn |-> "original"]],
      [width |-> 1, height |-> 250001, name |-> [fn |-> "original"]],
      [width |-> 500, height |-> 500, name |-> [fn |-> "original"]],
      None }

\* the messages of the handlers for the layer: the identity kernel, a 2x2
\* kernel, median filters of size 0 and -1, the Laplacian
HandlerMessagesFor(img) ==
    { KernelMessage(img, FILTER_PRESETS[1]),
      KernelMessage(img, [matrix |-> << <<1, 2>>, <<3, 4>> >>]),
      MedianMessage(img, 0), MedianMessage(img, -1),
      LaplacianMessage(img) }

NewCall ==
    [pc |-> "idle", message |-> None, worker |-> 0, timer |-> "none",
     settled |-> None, responseTo |-> 0, failure |-> "", inProcess |-> None,
     updated |-> None]

InitHandler ==
    /\ pc = "handlers" /\ imageData = NoImage
    /\ layer \in HandlerLayers
    /\ calls = [c \in Calls |-> NewCall]
    /\ workers = << >> /\ busyWorkers = {}
    /\ \E hardwareConcurrency \in HardwareConcurrencies :
          maxWorkers = Min(IF hardwareConcurrency = 0 THEN 4 ELSE hardwareConcurrency, 8)
    /\ inbox = [w \in WorkerIds |-> << >>]
    /\ outbox = [w \in WorkerIds |-> << >>]
    /\ listeners = [w \in WorkerIds |-> << >>]
    /\ errors = << >>
    /\ IdleGB7 /\ IdleResize /\ IdleCurves /\ IdleFilters /\ IdleWorker /\ IdleBlend
    /\ IdleMore

otherVars ==
    <<pc, imageData, encoded, file, parsed, resized, point1, point2, lut, filtered,
      workerVars, blendVars, moreVars>>

\* what follows the in-process call of a handler in the same block:
\* updateLayer with the result, or onError with the error thrown
FinishInProcess(c, data, outcome) ==
    /\ calls' = [calls EXCEPT ![c] =
                    [@ EXCEPT !.pc = "done", !.message = data, !.inProcess = outcome,
                              !.updated = IF outcome.status = "returned"
                                          THEN outcome ELSE None]]
    /\ layer' = IF outcome.status = "returned" THEN outcome.value ELSE layer
    /\ errors' = IF outcome.status = "thrown"
                 THEN Append(errors, [call |-> c, error |-> outcome.error])
                 ELSE errors

\* the in-process call of a handler
RunInProcess(c, data) == FinishInProcess(c, data, InProcessCall(data))

\* every worker of the pool, busy or not
EveryWorker == 1..Len(workers)

\* this.workers.find(w => !this.busyWorkers.has(w)) takes the first of these
FreeWorkers == { w \in 1..Len(workers) : workers[w] \notin busyWorkers }

\* a handler is invoked: without image data it reports the error; below the
\* threshold it filters in-process; above it, it builds the message and
\* FilterWorkerPool.applyFilter calls getWorker, which runs up to its await:
\* the first free worker is marked busy, or a worker is about to be created,
\* or there is none
Invoke(c, messages) ==
    /\ calls[c].pc = "idle"
    /\ IF layer = None
       THEN /\ errors' = Append(errors, [call |-> c, error |-> "no image data"])
            /\ calls' = [calls EXCEPT ![c].pc = "done"]
            /\ UNCHANGED <<layer, busyWorkers>>
       ELSE \E data \in messages :
              IF ~shouldUseWorker(layer)
              THEN RunInProcess(c, data) /\ UNCHANGED busyWorkers
              ELSE /\ IF FreeWorkers # {}
                      THEN LET freeWorker == CHOOSE w \in FreeWorkers :
                                                \A v \in FreeWorkers : w <= v
                           IN  /\ busyWorkers' = busyWorkers \cup {workers[freeWorker]}
                               /\ calls' = [calls EXCEPT ![c] =
                                     [@ EXCEPT !.pc = "gotWorker", !.message = data,
                                               !.worker = workers[freeWorker]]]
                      ELSE /\ busyWorkers' = busyWorkers
                           /\ calls' = [calls EXCEPT ![c] =
                                 [@ EXCEPT !.message = data,
                                           !.pc = IF Len(workers) < maxWorkers
                                                  THEN "creating" ELSE "gotWorker"]]
                   /\ UNCHANGED <<layer, errors>>
    /\ UNCHANGED <<workers, maxWorkers, inbox, outbox, listeners, otherVars>>

StartCall(c) == Invoke(c, HandlerMessagesFor(layer))

\* getWorker resumes after createFilterWorker: a new worker is pushed and
\* marked busy, or there is none
CreateWorker(c) ==
    /\ calls[c].pc = "creating"
    /\ \/ /\ Len(workers) + 1 \in DOMAIN inbox
          /\ workers' = Append(workers, Len(workers) + 1)
          /\ busyWorkers' = busyWorkers \cup {Len(workers) + 1}
          /\ calls' = [calls EXCEPT ![c] =
                [@ EXCEPT !.pc = "gotWorker", !.worker = Len(workers) + 1]]
       \/ /\ calls' = [calls EXCEPT ![c].pc = "gotWorker"]
          /\ UNCHANGED <<workers, busyWorkers>>
    /\ UNCHANGED <<layer, maxWorkers, inbox, outbox, listeners, errors, otherVars>>

\* applyFilter resumes after getWorker: without a worker it throws; with
\* one, applyFilterWithWorker arms the timeout, registers the listener and
\* posts the message
GotWorker(c) ==
    /\ calls[c].pc = "gotWorker"
    /\ IF calls[c].worker = 0
       THEN /\ calls' = [calls EXCEPT ![c] =
                  [@ EXCEPT !.pc = "fallback", !.failure = "no worker"]]
            /\ UNCHANGED <<inbox, listeners>>
       ELSE /\ calls' = [calls EXCEPT ![c] = [@ EXCEPT !.pc = "await", !.timer = "armed"]]
            /\ listeners' = [listeners EXCEPT ![calls[c].worker] = Append(@, c)]
            /\ inbox' = [inbox EXCEPT ![calls[c].worker] =
                            Append(@, [call |-> c, data |-> calls[c].message])]
    /\ UNCHANGED <<layer, workers, busyWorkers, maxWorkers, outbox, errors, otherVars>>

\* a worker handles the oldest message posted to it and posts the response
WorkerHandle(w) ==
    /\ inbox[w] # << >>
    /\ outbox' = [outbox EXCEPT ![w] =
            Append(@, [call |-> Head(inbox[w]).call,
                       data |-> WorkerOnMessage(Head(inbox[w]).data)])]
    /\ inbox' = [inbox EXCEPT ![w] = Tail(@)]
    /\ UNCHANGED <<layer, calls, workers, busyWorkers, maxWorkers, listeners, errors,
                   otherVars>>

IsListening(c, w) == \E i \in 1..Len(listeners[w]) : listeners[w][i] = c

\* a response reaches the main thread: every listener registered on the
\* worker clears its timeout, removes itself and settles its promise, which
\* has an effect only while the promise is pending
Deliver(w) ==
    /\ outbox[w] # << >>
    /\ LET event == Head(outbox[w])
           success == event.data.type = "SUCCESS"
       IN  calls' = [c \in DOMAIN calls |->
                IF ~IsListening(c, w)
                THEN calls[c]
                ELSE IF calls[c].pc # "await"
                THEN calls[c]
                ELSE [calls[c] EXCEPT
                        !.pc = "finally",
                        !.timer = "cleared",
                        !.responseTo = event.call,
                        !.settled = IF success
                                    THEN [status |-> "resolved", value |-> event.data.imageData]
                                    ELSE [status |-> "rejected", error |-> event.data.error],
                        !.failure = IF success THEN "" ELSE "error response"]]
    /\ listeners' = [listeners EXCEPT ![w] = << >>]
    /\ outbox' = [outbox EXCEPT ![w] = Tail(@)]
    /\ UNCHANGED <<layer, workers, busyWorkers, maxWorkers, inbox, errors, otherVars>>

\* the 30-second timeout of a pending request fires; its listener stays
Timeout(c) ==
    /\ calls[c].pc = "await" /\ calls[c].timer = "armed"
    /\ calls' = [calls EXCEPT ![c] =
            [@ EXCEPT !.pc = "finally", !.timer = "fired", !.failure = "timeout",
                      !.settled = [status |-> "rejected", error |-> "timeout"]]]
    /\ UNCHANGED <<layer, workers, busyWorkers, maxWorkers, inbox, outbox, listeners,
                   errors, otherVars>>

\* Finally of a handler without the inner catch block: the rejection reaches
\* onError
UncaughtFinally(c) ==
    /\ calls[c].pc = "finally"
    /\ busyWorkers' = busyWorkers \ {calls[c].worker}
    /\ calls' = [calls EXCEPT ![c].pc =
            IF calls[c].settled.status = "resolved" THEN "update" ELSE "done"]
    /\ errors' = IF calls[c].settled.status = "resolved"
                 THEN errors
                 ELSE Append(errors, [call |-> c, error |-> calls[c].settled.error])
    /\ UNCHANGED <<layer, workers, maxWorkers, inbox, outbox, listeners, otherVars>>

\* the finally block of applyFilter releases the worker; the handler goes on
\* with the result, or enters its catch block
Finally(c) ==
    /\ calls[c].pc = "finally"
    /\ busyWorkers' = busyWorkers \ {calls[c].worker}
    /\ calls' = [calls EXCEPT ![c].pc =
            IF calls[c].settled.status = "resolved" THEN "update" ELSE "fallback"]
    /\ UNCHANGED <<layer, workers, maxWorkers, inbox, outbox, listeners, errors, otherVars>>

\* the catch block: the in-process call with the image and parameters of
\* the message
Fallback(c) ==
    /\ calls[c].pc = "fallback"
    /\ RunInProcess(c, calls[c].message)
    /\ UNCHANGED <<workers, busyWorkers, maxWorkers, inbox, outbox, listeners, otherVars>>

\* updateLayer with the image the worker path resolved with
Update(c) ==
    /\ calls[c].pc = "update"
    /\ layer' = calls[c].settled.value
    /\ calls' = [calls EXCEPT ![c] =
            [@ EXCEPT !.pc = "done", !.updated = Returned(calls[c].settled.value)]]
    /\ UNCHANGED <<workers, busyWorkers, maxWorkers, inbox, outbox, listeners, errors,
                   otherVars>>

NextHandler ==
    \/ \E c \in DOMAIN calls : StartCall(c)
    \/ \E c \in DOMAIN calls : CreateWorker(c)
    \/ \E c \in DOMAIN calls : GotWorker(c)
    \/ \E w \in DOMAIN inbox : WorkerHandle(w)
    \/ \E w \in DOMAIN inbox : Deliver(w)
    \/ \E c \in DOMAIN calls : Timeout(c)
    \/ \E c \in DOMAIN calls : Finally(c)
    \/ \E c \in DOMAIN calls : Fallback(c)
    \/ \E c \in DOMAIN calls : Update(c)

SpecHandler == InitHandler /\ [][NextHandler]_vars

\* the continuation of an await runs once the awaited promise has settled,
\* and a timeout that is not cleared fires; a worker need not answer
FairHandler ==
    \A c \in Calls :
        /\ WF_vars(CreateWorker(c)) /\ WF_vars(GotWorker(c)) /\ WF_vars(Timeout(c))
        /\ WF_vars(Finally(c)) /\ WF_vars(Fallback(c)) /\ WF_vars(Update(c))

SpecHandlerFair == SpecHandler /\ FairHandler

\* --- The worker pool under concurrent requests: one invocation more than
\* above, all on a layer above the worker threshold, with the messages of
\* a handler the worker answers with SUCCESS or with ERROR, and a pool of at
\* most one worker or at most eight
PoolCalls == 1..(MaxCalls + 1)

PoolLayer == [width |-> 501, height |-> 500, name |-> [fn |-> "original"]]

InitPool ==
    /\ pc = "handlers" /\ imageData = NoImage
    /\ layer = PoolLayer
    /\ calls = [c \in PoolCalls |-> NewCall]
    /\ workers = << >> /\ busyWorkers = {}
    /\ \E hardwareConcurrency \in {1, 16} : maxWorkers = Min(hardwareConcurrency, 8)
    /\ inbox = [w \in PoolCalls |-> << >>]
    /\ outbox = [w \in PoolCalls |-> << >>]
    /\ listeners = [w \in PoolCalls |-> << >>]
    /\ errors = << >>
    /\ IdleGB7 /\ IdleResize /\ IdleCurves /\ IdleFilters /\ IdleWorker /\ IdleBlend
    /\ IdleMore

\* the identity kernel and a 2x2 kernel
PoolMessagesFor(img) ==
    { KernelMessage(img, FILTER_PRESETS[1]),
      KernelMessage(img, [matrix |-> << <<1, 2>>, <<3, 4>> >>]) }

StartPoolCall(c) == Invoke(c, PoolMessagesFor(layer))

NextPool ==
    \/ \E c \in DOMAIN calls : StartPoolCall(c)
    \/ \E c \in DOMAIN calls : CreateWorker(c)
    \/ \E c \in DOMAIN calls : GotWorker(c)
    \/ \E w \in DOMAIN inbox : WorkerHandle(w)
    \/ \E w \in DOMAIN inbox : Deliver(w)
    \/ \E c \in DOMAIN calls : Timeout(c)
    \/ \E c \in DOMAIN calls : Finally(c)
    \/ \E c \in DOMAIN calls : Fallback(c)
    \/ \E c \in DOMAIN calls : Update(c)

SpecPool == InitPool /\ [][NextPool]_vars

\* --- Compositor
MaxLayers == 2

\* the colours of Palette in a fixed order
PaletteSeq ==
    << <<0, 0, 0, 255>>, <<255, 255, 255, 255>>, <<0, 14, 76, 128>>, <<0, 41, 44, 127>>,
       <<255, 0, 0, 0>> >>

\* a w x h buffer whose pixels run through the palette from colour first on
CycleImage(w, h, first) ==
    MakeImage(w, h, [i \in 1..(w * h) |-> PaletteSeq[((first + i - 2) % 5) + 1]])

BlendImages ==
    { CycleImage(1, 1, 1), CycleImage(1, 2, 4), CycleImage(2, 2, 1), CycleImage(3, 1, 2) }

\* every blend mode at full opacity, one at half and one at no opacity
BlendSettings ==
    { [blendMode |-> mode, opacity |-> 100] : mode \in BlendModes }
        \cup { [blendMode |-> "normal", opacity |-> 50],
               [blendMode |-> "screen", opacity |-> 0] }

BlendLayerRecords ==
    { [imageData |-> image, blendMode |-> setting.blendMode,
       opacity |-> setting.opacity, visible |-> visible] :
          image \in BlendImages, setting \in BlendSettings, visible \in BOOLEAN }

\* the layer lists of up to MaxLayers layers, bottom layer first
LayerLists == UNION { [1..n -> BlendLayerRecords] : n \in 0..MaxLayers }

Canvases == { [width |-> 2, height |-> 2], [width |-> 3, height |-> 2] }

InitBlend ==
    /\ pc = "blend" /\ imageData = NoImage
    /\ layers \in LayerLists /\ canvas \in Canvases
    /\ blended = None
    /\ IdleGB7 /\ IdleResize /\ IdleCurves /\ IdleFilters /\ IdleWorker /\ IdleHandler
    /\ IdleMore

BlendLayers ==
    /\ pc = "blend"
    /\ blended' = blendLayers(layers, canvas.width, canvas.height)
    /\ pc' = "done"
    /\ UNCHANGED <<imageData, encoded, file, parsed, resized, point1, point2, lut, filtered,
                   workerVars, handlerVars, layers, canvas, moreVars>>

NextBlend == BlendLayers

SpecBlend == InitBlend /\ [][NextBlend]_vars

\* --- blendColors on its own
\* base colours: every third channel value and the values around the middle,
\* with alphas on both sides of the overlay alphas
BaseChannels == { b \in 0..255 : b % 3 = 0 \/ b \in {127, 128} }

BaseColors ==
    { <<b, 255 - b, (b * 7) % 256, a>> : b \in BaseChannels, a \in {0, 1, 64, 127, 128, 255} }

\* overlay colours: the palette, and colours over its channel values with
\* every alpha BlendBelowTie covers
OverlayColors ==
    Palette \cup { <<255, 14, 76, 127>>, <<44, 255, 0, 128>>, <<41, 76, 255, 255>>,
                   <<14, 44, 41, 0>> }

InitColors ==
    /\ pc = "blendColors" /\ imageData = NoImage
    /\ colors \in [base : BaseColors, overlay : OverlayColors, mode : BlendModes,
                   opacity : Opacities]
    /\ mixed = None
    /\ IdleGB7 /\ IdleResize /\ IdleCurves /\ IdleFilters /\ IdleWorker /\ IdleHandler
    /\ IdleBlend /\ IdleSpaces /\ IdleLate

BlendColors ==
    /\ pc = "blendColors"
    /\ mixed' = Returned(blendColors(colors.base, colors.overlay, colors.mode, colors.opacity))
    /\ pc' = "done"
    /\ UNCHANGED <<coreVars, colors, spaceVars, lateVars>>

NextColors == BlendColors

SpecColors == InitColors /\ [][NextColors]_vars

\* --- Colour spaces
\* XYZ components, in hundredths: below the gamut, around zero, inside the
\* gamut, the white point, and above it up to 3500
XyzComponents ==
    { -5000, -1, 0, 1, 50, 2000, 4124, 9505, 10000, 10889, 15000, 30000, 350000 }

RgbChannels == { 0, 1, 10, 128, 192, 255 }

IdleCore ==
    /\ imageData = NoImage
    /\ IdleGB7 /\ IdleResize /\ IdleCurves /\ IdleFilters /\ IdleWorker /\ IdleHandler
    /\ IdleBlend

\* either an RGB colour about to be converted to XYZ and back, or an XYZ
\* colour about to be converted to RGB
InitSpaces ==
    /\ \/ /\ pc = "rgbToXYZ"
          /\ rgbColor \in [r : RgbChannels, g : RgbChannels, b : RgbChannels]
          /\ xyzColor = None
       \/ /\ pc = "xyzToRGB"
          /\ rgbColor = None
          /\ xyzColor \in [x : XyzComponents, y : XyzComponents, z : XyzComponents]
    /\ rgbBack = None
    /\ IdleCore /\ IdleColors /\ IdleLate

RgbToXYZ ==
    /\ pc = "rgbToXYZ"
    /\ xyzColor' = rgbToXYZ(rgbColor)
    /\ pc' = "xyzToRGB"
    /\ UNCHANGED <<coreVars, colorVars, rgbColor, rgbBack, lateVars>>

XyzToRGB ==
    /\ pc = "xyzToRGB"
    /\ rgbBack' = Returned(xyzToRGB(xyzColor))
    /\ pc' = "done"
    /\ UNCHANGED <<coreVars, colorVars, rgbColor, xyzColor, lateVars>>

NextSpaces == RgbToXYZ \/ XyzToRGB

SpecSpaces == InitSpaces /\ [][NextSpaces]_vars

----------------------------------------------------------------------------
(* Buffers by reference: what a transform does to the buffers it is given *)

\* heap is the sequence of the buffers allocated so far and a reference is an
\* index into it.  A call leaves the heap it has written and allocated in,
\* and the reference it returns or the error it throws; buffers a call drops
\* before it returns (padded copies, the gray and mask arrays of encodeGB7)
\* are not kept.

\* a transform that allocates its result and writes nothing else: the result
\* is a new reference, the heap is otherwise as it was
Fresh(h, outcome) ==
    IF outcome.status = "returned"
    THEN [heap |-> Append(h, outcome.value), status |-> "returned", ref |-> Len(h) + 1]
    ELSE [heap |-> h, status |-> "thrown", error |-> outcome.error]

\* the loop of applyLookupTable over the buffer it writes; luts holds the
\* red, green and blue tables and, when alphaLut is given, the alpha table
LookupLoop(img, luts) ==
    [img EXCEPT !.data = [k \in 1..Len(img.data) |->
        CASE (k - 1) % 4 = 0 -> luts.red[img.data[k]]
          [] (k - 1) % 4 = 1 -> luts.green[img.data[k]]
          [] (k - 1) % 4 = 2 -> luts.blue[img.data[k]]
          [] OTHER -> IF "alpha" \in DOMAIN luts THEN luts.alpha[img.data[k]]
                      ELSE img.data[k]]]

\* applyLookupTable wrapping imageData.data itself in the new ImageData, so
\* that the loop writes the buffer it was given
SharingApplyLookupTable(h, ref, luts) ==
    [heap |-> [h EXCEPT ![ref] = LookupLoop(h[ref], luts)], status |-> "returned", ref |-> ref]

\* applyLookupTable(imageData, redLut, greenLut, blueLut, alphaLut?) on the
\* buffer at ref: new Uint8ClampedArray(imageData.data) copies the buffer,
\* and the loop writes the copy
applyLookupTable(h, ref, luts) ==
    LET newImageData == Len(h) + 1
        copied == Append(h, h[ref])
    IN  [heap |-> [copied EXCEPT ![newImageData] = LookupLoop(copied[newImageData], luts)],
         status |-> "returned", ref |-> newImageData]

\* the loop of applyGaussianBlur by reference: result starts as the buffer
\* given and each pass replaces it by the buffer applyKernelFilter returns
RECURSIVE BlurPasses(_, _, _)
BlurPasses(h, result, passes) ==
    IF passes = 0
    THEN [heap |-> h, status |-> "returned", ref |-> result]
    ELSE BlurPasses(
            Append(h, applyKernelFilter(h[result],
                [matrix |-> << <<1, 2, 1>>, <<2, 4, 2>>, <<1, 2, 1>> >>, divisor |-> 16]).value),
            Len(h) + 1, passes - 1)

\* applyGaussianBlur with passes = Math.round(sigma)
UnguardedBlurByReference(h, ref, sigmaTenths) == BlurPasses(h, ref, Round(sigmaTenths, 10))

\* applyGaussianBlur(imageData, sigma) on the buffer at ref, sigma in tenths
BlurByReference(h, ref, sigmaTenths) == BlurPasses(h, ref, Max(1, Round(sigmaTenths, 10)))

\* the layers handed to blendLayers, their imageData read through the heap
LayersAt(h, layerRefs) ==
    [i \in 1..Len(layerRefs) |->
        [imageData |-> h[layerRefs[i].ref], blendMode |-> layerRefs[i].blendMode,
         opacity |-> layerRefs[i].opacity, visible |-> layerRefs[i].visible]]

\* --- inputs
\* the buffers on the heap before the call: one of up to two palette pixels
\* and a 2x2 one
HeapImages == PaletteImages(2)

Heaps == { <<image, CycleImage(2, 2, 1)>> : image \in HeapImages }

\* curve tables: the identity, an inversion, and a step
CurveTables ==
    { createLookupTable([input |-> 0, output |-> 0], [input |-> 255, output |-> 255]),
      createLookupTable([input |-> 0, output |-> 255], [input |-> 255, output |-> 0]),
      createLookupTable([input |-> 100, output |-> 50], [input |-> 100, output |-> 200]) }

LookupTables ==
    { [red |-> t, green |-> u, blue |-> t] : t, u \in CurveTables }
        \cup { [red |-> t, green |-> t, blue |-> u, alpha |-> u] : t, u \in CurveTables }

\* blendLayers calls: two layers over the buffers of the heap, the second
\* either the same buffer as the first or the other one
LayerRefLists ==
    { << [ref |-> 1, blendMode |-> "normal", opacity |-> 100, visible |-> TRUE],
         [ref |-> r, blendMode |-> mode, opacity |-> opacity, visible |-> visible] >> :
            r \in 1..2, mode \in BlendModes, opacity \in {50, 100}, visible \in BOOLEAN }

TransformCalls ==
    { [fn |-> "applyKernelFilter", ref |-> 1, kernel |-> kernel] : kernel \in Kernels }
    \cup { [fn |-> "applyMedianFilter", ref |-> 1, kernelSize |-> size] : size \in KernelSizes }
    \cup { [fn |-> "applyLaplacianFilter", ref |-> 1] }
    \cup { [fn |-> "applyGaussianBlur", ref |-> 1, sigma |-> sigma] : sigma \in Sigmas }
    \cup { [fn |-> "applyLookupTable", ref |-> 1, luts |-> luts] : luts \in LookupTables }
    \cup { [fn |-> fn, ref |-> 1, destWidth |-> dest[1], destHeight |-> dest[2]] :
                fn \in {"nearestNeighbor", "bilinearInterpolation"}, dest \in Shapes(MaxPixels) }
    \cup { [fn |-> "blendLayers", layers |-> layerRefs, width |-> 2, height |-> 2] :
                layerRefs \in LayerRefLists }
    \cup { [fn |-> "encodeGB7", ref |-> 1] }

InitHeap ==
    /\ pc = "transform"
    /\ heap \in Heaps /\ transform \in TransformCalls /\ returned = None
    /\ IdleCore /\ IdleColors /\ IdleSpaces /\ IdleEditor

\* the call returns or throws: the heap is what the call left
Finish(left) ==
    /\ heap' = left.heap
    /\ returned' = IF left.status = "returned"
                   THEN [status |-> "returned", ref |-> left.ref]
                   ELSE [status |-> "thrown", error |-> left.error]
    /\ pc' = "done"
    /\ UNCHANGED <<coreVars, colorVars, spaceVars, transform, editorVars>>

KernelFilterByReference ==
    /\ pc = "transform" /\ transform.fn = "applyKernelFilter"
    /\ Finish(Fresh(heap, applyKernelFilter(heap[transform.ref], transform.kernel)))

MedianFilterByReference ==
    /\ pc = "transform" /\ transform.fn = "applyMedianFilter"
    /\ Finish(Fresh(heap, applyMedianFilter(heap[transform.ref], transform.kernelSize)))

LaplacianFilterByReference ==
    /\ pc = "transform" /\ transform.fn = "applyLaplacianFilter"
    /\ Finish(Fresh(heap, applyLaplacianFilter(heap[transform.ref])))

GaussianBlurByReference ==
    /\ pc = "transform" /\ transform.fn = "applyGaussianBlur"
    /\ Finish(BlurByReference(heap, transform.ref, transform.sigma))

LookupTableByReference ==
    /\ pc = "transform" /\ transform.fn = "applyLookupTable"
    /\ Finish(applyLookupTable(heap, transform.ref, transform.luts))

NearestNeighborByReference ==
    /\ pc = "transform" /\ transform.fn = "nearestNeighbor"
    /\ Finish(Fresh(heap, Returned(nearestNeighbor(heap[transform.ref],
            heap[transform.ref].width, heap[transform.ref].height,
            transform.destWidth, transform.destHeight))))

BilinearByReference ==
    /\ pc = "transform" /\ transform.fn = "bilinearInterpolation"
    /\ Finish(Fresh(heap, Returned(bilinearInterpolation(heap[transform.ref],
            heap[transform.ref].width, heap[transform.ref].height,
            transform.destWidth, transform.destHeight))))

BlendLayersByReference ==
    /\ pc = "transform" /\ transform.fn = "blendLayers"
    /\ Finish(Fresh(heap, blendLayers(LayersAt(heap, transform.layers),
            transform.width, transform.height)))

EncodeByReference ==
    /\ pc = "transform" /\ transform.fn = "encodeGB7"
    /\ Finish(Fresh(heap, encodeGB7(heap[transform.ref])))

NextHeap ==
    \/ KernelFilterByReference \/ MedianFilterByReference \/ LaplacianFilterByReference
    \/ GaussianBlurByReference \/ LookupTableByReference \/ NearestNeighborByReference
    \/ BilinearByReference \/ BlendLayersByReference \/ EncodeByReference

SpecHeap == InitHeap /\ [][NextHeap]_vars

----------------------------------------------------------------------------
(* EditorProvider: the layer list and the active layer *)

\* React state: a call of a setter between two renders is queued, and the
\* functions a consumer calls are those of the last render, which read the
\* activeLayerId of that render.  At most MaxBatch calls are made between two
\* renders and at most MaxEditorLayers layers are ever added.
MaxEditorLayers == 3

MaxBatch == 2

\* prev.filter(layer => layer.id !== layerId)
DeleteFrom(prev, layerId) ==
    LET Other(id) == id # layerId
    IN  SelectSeq(prev, Other)

\* filtered.length > 0 ? filtered[filtered.length - 1] : null, then ?.id || null
LastOrNull(remaining) == IF Len(remaining) > 0 THEN remaining[Len(remaining)] ELSE NullId

\* the updater of moveLayer
MoveIn(prev, layerId, direction) ==
    IF \A i \in 1..Len(prev) : prev[i] # layerId
    THEN prev
    ELSE LET index == CHOOSE i \in 1..Len(prev) :
                        prev[i] = layerId /\ \A j \in 1..(i - 1) : prev[j] # layerId
             newIndex == IF direction = "up" THEN index + 1 ELSE index - 1
         IN  IF newIndex < 1 \/ newIndex > Len(prev)
             THEN prev
             ELSE [prev EXCEPT ![index] = prev[newIndex], ![newIndex] = prev[index]]

\* one queued setLayers updater applied to prev
Updated(prev, updater) ==
    CASE updater.op = "add" -> Append(prev, updater.id)
      [] updater.op = "delete" -> DeleteFrom(prev, updater.id)
      [] updater.op = "move" -> MoveIn(prev, updater.id, updater.direction)

\* the render: the queued updaters run in order, each on the list the one
\* before it returned.  The updater of deleteLayer compares layerId with the
\* activeLayerId its deleteLayer call saw and, when they are equal, calls
\* setActiveLayerId; an updater that already ran when it was queued does not
\* run again.
RECURSIVE Reduce(_, _, _)
Reduce(prev, active, queue) ==
    IF queue = << >>
    THEN [layers |-> prev, active |-> active]
    ELSE LET updater == Head(queue)
             remaining == Updated(prev, updater)
         IN  Reduce(remaining,
                    IF updater.op = "delete" /\ ~updater.ran /\ updater.id = updater.seen
                    THEN LastOrNull(remaining) ELSE active,
                    Tail(queue))

\* the calls made since the last render: every call but setActiveLayer
\* queues one updater of the layer list
CallsQueued ==
    LET Direct(entry) == entry.by = "setActiveLayer"
    IN  Len(queuedLayers) + Len(SelectSeq(queuedActive, Direct))

\* a consumer calls the functions of the last render
MayCall == pc = "editor" /\ CallsQueued < MaxBatch

\* React runs an updater at once when nothing is queued on the component,
\* and when the component renders otherwise
RunsAtOnce == queuedLayers = << >> /\ queuedActive = << >>

InitEditor ==
    /\ pc = "editor"
    /\ editorLayers = << >> /\ activeLayerId = NullId
    /\ queuedLayers = << >> /\ queuedActive = << >> /\ nextLayerId = 1
    /\ IdleCore /\ IdleColors /\ IdleSpaces /\ IdleHeap

\* addLayer(layer): the id is new; Date.now() and Math.random() are taken
\* never to repeat an id
AddLayer ==
    /\ MayCall /\ nextLayerId <= MaxEditorLayers
    /\ queuedLayers' = Append(queuedLayers,
            [op |-> "add", id |-> nextLayerId, seen |-> activeLayerId, ran |-> RunsAtOnce])
    /\ queuedActive' = Append(queuedActive, [id |-> nextLayerId, by |-> "addLayer"])
    /\ nextLayerId' = nextLayerId + 1
    /\ UNCHANGED <<pc, coreVars, colorVars, spaceVars, heapVars, editorLayers, activeLayerId>>

\* deleteLayer(layerId), for a layer of the rendered list
DeleteLayer(layerId) ==
    /\ MayCall
    /\ queuedLayers' = Append(queuedLayers,
            [op |-> "delete", id |-> layerId, seen |-> activeLayerId, ran |-> RunsAtOnce])
    /\ queuedActive' =
            IF RunsAtOnce /\ layerId = activeLayerId
            THEN Append(queuedActive,
                    [id |-> LastOrNull(DeleteFrom(editorLayers, layerId)), by |-> "deleteLayer"])
            ELSE queuedActive
    /\ UNCHANGED <<pc, coreVars, colorVars, spaceVars, heapVars, editorLayers, activeLayerId,
                   nextLayerId>>

\* moveLayer(layerId, direction), for a layer of the rendered list
MoveLayer(layerId, direction) ==
    /\ MayCall
    /\ queuedLayers' = Append(queuedLayers,
            [op |-> "move", id |-> layerId, direction |-> direction, seen |-> activeLayerId,
             ran |-> RunsAtOnce])
    /\ UNCHANGED <<pc, coreVars, colorVars, spaceVars, heapVars, editorLayers, activeLayerId,
                   queuedActive, nextLayerId>>

\* the layer list the queued updaters lead to
ListQueued == Reduce(editorLayers, NullId, queuedLayers).layers

\* setActiveLayer(layerId), for a layer of the rendered list that no queued
\* call deletes
SetActiveLayer(layerId) ==
    /\ MayCall
    /\ \E i \in 1..Len(ListQueued) : ListQueued[i] = layerId
    /\ queuedActive' = Append(queuedActive, [id |-> layerId, by |-> "setActiveLayer"])
    /\ UNCHANGED <<pc, coreVars, colorVars, spaceVars, heapVars, editorLayers, activeLayerId,
                   queuedLayers, nextLayerId>>

\* the component renders: the queued values of activeLayerId apply in
\* order, then the updaters of the layer list run
Render ==
    /\ pc = "editor" /\ ~RunsAtOnce
    /\ LET queuedId == IF queuedActive = << >> THEN activeLayerId
                       ELSE queuedActive[Len(queuedActive)].id
           reduced == Reduce(editorLayers, queuedId, queuedLayers)
       IN  /\ editorLayers' = reduced.layers
           /\ activeLayerId' = reduced.active
    /\ queuedLayers' = << >> /\ queuedActive' = << >>
    /\ UNCHANGED <<pc, coreVars, colorVars, spaceVars, heapVars, nextLayerId>>

RenderedIds == { editorLayers[i] : i \in 1..Len(editorLayers) }

NextEditor ==
    \/ AddLayer
    \/ \E layerId \in RenderedIds : DeleteLayer(layerId)
    \/ \E layerId \in RenderedIds, direction \in {"up", "down"} : MoveLayer(layerId, direction)
    \/ \E layerId \in RenderedIds : SetActiveLayer(layerId)
    \/ Render

SpecEditor == InitEditor /\ [][NextEditor]_vars
----------------------------------------------------------------------------
(* Properties *)

Abs(v) == IF v >= 0 THEN v ELSE -v

Pixels(img) == 0..(img.width * img.height - 1)

IsOpaqueGray(img) ==
    /\ WellFormed(img)
    /\ \A i \in Pixels(img) :
        /\ img.data[4 * i + 2] = img.data[4 * i + 1]
        /\ img.data[4 * i + 3] = img.data[4 * i + 1]
        /\ img.data[4 * i + 4] = 255

\* C1: a fully opaque gray image that encodeGB7 accepts comes back from
\* parseGB7File with R = G = B within 2 of the source gray and alpha 255 at
\* every pixel, and the flags byte of the encoded stream is 0x00.
C1_GrayRoundTrip ==
    (pc = "done" /\ encoded.status = "returned" /\ IsOpaqueGray(imageData)) =>
        /\ encoded.value[6] = 0
        /\ parsed.status = "resolved"
        /\ Len(parsed.imageData.data) = Len(imageData.data)
        /\ \A i \in Pixels(imageData) :
            LET g == imageData.data[4 * i + 1]
                out == parsed.imageData.data
            IN  /\ out[4 * i + 2] = out[4 * i + 1]
                /\ out[4 * i + 3] = out[4 * i + 1]
                /\ Abs(out[4 * i + 1] - g) <= 2
                /\ out[4 * i + 4] = 255

\* the 2x2 opaque mid-gray buffer has been encoded and parsed back
C1_Witness ==
    /\ pc = "done" /\ encoded.status = "returned" /\ parsed.status = "resolved"
    /\ imageData = GrayImage(2, 2, 128, 0)

\* C2: for an image encodeGB7 accepts, the parsed image has the source's
\* width and height, and each pixel's alpha is 255 where the source alpha is
\* at least 128 and 0 where it is below, with and without the mask flag.
C2_SizeAndAlphaRoundTrip ==
    (pc = "done" /\ encoded.status = "returned") =>
        /\ parsed.status = "resolved"
        /\ parsed.imageData.width = imageData.width
        /\ parsed.imageData.height = imageData.height
        /\ parsed.header.width = imageData.width
        /\ parsed.header.height = imageData.height
        /\ Len(parsed.imageData.data) = 4 * imageData.width * imageData.height
        /\ \A i \in Pixels(imageData) :
            parsed.imageData.data[4 * i + 4] = IF imageData.data[4 * i + 4] >= 128 THEN 255 ELSE 0

\* a masked image with both an opaque and a transparent pixel came back
C2_Witness ==
    /\ pc = "done" /\ encoded.status = "returned" /\ parsed.status = "resolved"
    /\ parsed.header.hasMask
    /\ \E i \in Pixels(imageData) : imageData.data[4 * i + 4] \in 128..254
    /\ \E i \in Pixels(imageData) : imageData.data[4 * i + 4] \in 1..127

\* C3: the stream encodeGB7 returns is 12 + width*height bytes: magic
\* 47 42 37 1D, version 1, flags 0x01 exactly when some pixel has alpha below
\* 128, width and height big-endian, two zero bytes, then per pixel
\* (maskBit << 7) | gray7 when the flag is set and gray7 when it is not, with
\* gray7 = clamp(round(luma * 127 / 255), 0, 127) of the rounded luma.
C3_EncodedLayout ==
    encoded.status = "returned" =>
        LET bytes == encoded.value
            anyTransparent == \E i \in Pixels(imageData) : imageData.data[4 * i + 4] < 128
            gray7(i) ==
                LET luma == Luma(imageData.data[4 * i + 1], imageData.data[4 * i + 2],
                                 imageData.data[4 * i + 3])
                    q == (2 * 127 * luma + 255) \div 510
                IN  IF q < 0 THEN 0 ELSE IF q > 127 THEN 127 ELSE q
            maskBit(i) == IF imageData.data[4 * i + 4] >= 128 THEN 1 ELSE 0
        IN  /\ Len(bytes) = 12 + imageData.width * imageData.height
            /\ \A k \in 1..Len(bytes) : bytes[k] \in 0..255
            /\ <<bytes[1], bytes[2], bytes[3], bytes[4]>> = <<71, 66, 55, 29>>
            /\ bytes[5] = 1
            /\ bytes[6] = IF anyTransparent THEN 1 ELSE 0
            /\ 256 * bytes[7] + bytes[8] = imageData.width
            /\ 256 * bytes[9] + bytes[10] = imageData.height
            /\ bytes[11] = 0 /\ bytes[12] = 0
            /\ \A i \in Pixels(imageData) :
                bytes[13 + i] = IF anyTransparent THEN 128 * maskBit(i) + gray7(i) ELSE gray7(i)

\* a stream with the flag set that holds an opaque pixel of the colour
\* (0, 14, 76) (byte 0x80 | 7) and a transparent one of (0, 41, 44) (byte 16)
C3_Witness ==
    /\ encoded.status = "returned"
    /\ encoded.value[6] = 1
    /\ imageData.width * imageData.height >= 2
    /\ \E i \in Pixels(imageData) : encoded.value[13 + i] = 135
    /\ \E i \in Pixels(imageData) : encoded.value[13 + i] = 16

\* C4: encodeGB7 throws, and returns no byte stream, when width or height is
\* 0, when width or height exceeds 65535, or when the data length is not
\* width*height*4; a 0x0 buffer gives no header-only stream.
Refused(img) ==
    \/ img.width = 0 \/ img.height = 0
    \/ img.width > 65535 \/ img.height > 65535
    \/ Len(img.data) # img.width * img.height * 4

C4_EncodeRefuses ==
    (encoded.status # "none" /\ Refused(imageData)) => encoded.status = "thrown"

\* encodeGB7 has thrown on the 0x0 buffer
C4_Witness ==
    /\ pc = "done" /\ encoded.status = "thrown"
    /\ imageData.width = 0 /\ imageData.height = 0 /\ imageData.data = <<>>

\* C5: parseGB7File rejects, with no image, a stream with the signature and
\* a header of positive width and height but fewer than 12 + width*height
\* bytes.
C5_TruncatedRejected ==
    ( /\ parsed.status # "none"
      /\ Len(file) >= 12
      /\ SignatureStop(file) = 4
      /\ 256 * file[7] + file[8] >= 1
      /\ 256 * file[9] + file[10] >= 1
      /\ Len(file) < 12 + (256 * file[7] + file[8]) * (256 * file[9] + file[10]) )
    => parsed.status = "rejected"

\* C6: parseGB7File rejects with the invalid-signature error, and produces
\* no header, image or URL, for every stream whose first four bytes differ
\* from 47 42 37 1D in at least one position.
C6_BadSignatureRejected ==
    ( /\ parsed.status # "none"
      /\ Len(file) >= 4
      /\ \E i \in 1..4 : file[i] # <<71, 66, 55, 29>>[i] )
    => parsed = [status |-> "rejected", error |-> "Invalid GrayBit-7 file signature"]

\* a complete file whose signature differs only in its last byte was rejected
C6_Witness ==
    /\ parsed.status = "rejected"
    /\ Len(file) > 12
    /\ <<file[1], file[2], file[3]>> = <<71, 66, 55>> /\ file[4] # 29

\* C7: resizeImage to the source's own width and height with the bilinear
\* method (named or by default) returns the source buffer byte for byte.
C7_BilinearIdentity ==
    ( /\ resized.status = "returned"
      /\ resized.method \in {"default", "bilinear"}
      /\ resized.destWidth = imageData.width
      /\ resized.destHeight = imageData.height )
    => /\ resized.value.width = imageData.width
       /\ resized.value.height = imageData.height
       /\ \A k \in 1..Len(imageData.data) : resized.value.data[k] = imageData.data[k]

\* C8: with equal inputs createLookupTable returns the constant table of
\* round((p1.output + p2.output) / 2) clamped to 0..255.
C8_EqualInputsConstant ==
    (lut.status = "returned" /\ point1.input = point2.input) =>
        \A i \in 0..255 :
            lut.value[i] = Clamp255((point1.output + point2.output + 1) \div 2)

\* C9: with distinct inputs, a the point of smaller input and b the other,
\* lut[i] is a.output up to a.input, b.output from b.input on, and in between
\* round(a.output + (b.output - a.output)(i - a.input)/(b.input - a.input)),
\* every entry in 0..255; points (0,0) and (255,255) give lut[i] = i.
C9_PiecewiseLinear ==
    (lut.status = "returned" /\ point1.input # point2.input) =>
        LET a == IF point1.input < point2.input THEN point1 ELSE point2
            b == IF point1.input < point2.input THEN point2 ELSE point1
            d == b.input - a.input
        IN  \A i \in 0..255 :
                /\ lut.value[i] \in 0..255
                /\ i <= a.input => lut.value[i] = a.output
                /\ i >= b.input => lut.value[i] = b.output
                /\ (a.input < i /\ i < b.input) =>
                      lut.value[i] =
                        (2 * (a.output * d + (b.output - a.output) * (i - a.input)) + d)
                            \div (2 * d)

\* C10: applyKernelFilter with the identity kernel (divisor 1, offset 0)
\* returns the input's width and height and, at every pixel, the input's R,
\* G, B and alpha.
IsIdentityKernel(kernel) ==
    /\ kernel.matrix = << <<0, 0, 0>>, <<0, 1, 0>>, <<0, 0, 0>> >>
    /\ "divisor" \in DOMAIN kernel => kernel.divisor = 1
    /\ "offset" \in DOMAIN kernel => kernel.offset = 0

C10_IdentityKernel ==
    (filtered # None /\ filtered.op = "applyKernelFilter" /\ IsIdentityKernel(filtered.kernel)) =>
        /\ filtered.outcome.status = "returned"
        /\ filtered.outcome.value.width = imageData.width
        /\ filtered.outcome.value.height = imageData.height
        /\ Len(filtered.outcome.value.data) = Len(imageData.data)
        /\ \A k \in 1..Len(imageData.data) : filtered.outcome.value.data[k] = imageData.data[k]

\* the identity kernel has run on a 3x3 buffer whose corner, border and
\* centre pixels differ
C10_Witness ==
    /\ filtered # None /\ filtered.op = "applyKernelFilter"
    /\ IsIdentityKernel(filtered.kernel)
    /\ filtered.outcome.status = "returned"
    /\ imageData.width = 3 /\ imageData.height = 3
    /\ Channel(imageData, 0, 0, 0) # Channel(imageData, 1, 0, 0)
    /\ Channel(imageData, 1, 0, 0) # Channel(imageData, 1, 1, 0)

\* C11: applyKernelFilter throws, and returns no buffer, for every kernel
\* whose matrix is not exactly three rows of exactly three entries each.
IsThreeByThree(matrix) ==
    Len(matrix) = 3 /\ \A i \in 1..3 : Len(matrix[i]) = 3

C11_RejectsNon3x3 ==
    ( /\ filtered # None /\ filtered.op = "applyKernelFilter"
      /\ ~IsThreeByThree(filtered.kernel.matrix) )
    => filtered.outcome.status = "thrown"

\* C12: applyKernelFilter called with a kernel whose divisor is 0 throws and
\* returns no buffer.
C12_ZeroDivisorRejected ==
    ( /\ filtered # None /\ filtered.op = "applyKernelFilter"
      /\ "divisor" \in DOMAIN filtered.kernel
      /\ filtered.kernel.divisor = 0 )
    => filtered.outcome.status = "thrown"

\* C13: applyMedianFilter called with a kernelSize of 0 or less throws and
\* returns no buffer.
C13_NonPositiveKernelSizeRejected ==
    ( /\ filtered # None /\ filtered.op = "applyMedianFilter"
      /\ filtered.kernelSize <= 0 )
    => filtered.outcome.status = "thrown"

\* C14: whenever applyKernelFilter, applyMedianFilter, applyLaplacianFilter
\* or applyGaussianBlur (any number of passes) returns, the output has the
\* input's width and height and every pixel has the alpha byte of the same
\* pixel of the input.
C14_AlphaAndSizeKept ==
    ( /\ filtered # None
      /\ filtered.op \in {"applyKernelFilter", "applyMedianFilter",
                           "applyLaplacianFilter", "applyGaussianBlur"}
      /\ filtered.outcome.status = "returned" )
    => /\ filtered.outcome.value.width = imageData.width
       /\ filtered.outcome.value.height = imageData.height
       /\ Len(filtered.outcome.value.data) = Len(imageData.data)
       /\ \A x \in 0..(imageData.width - 1), y \in 0..(imageData.height - 1) :
              Channel(filtered.outcome.value, x, y, 3) = Channel(imageData, x, y, 3)

\* a median filter of size 3 has changed the colour of a pixel of a 3x3
\* buffer whose pixels have different alpha bytes
C14_Witness ==
    /\ filtered # None /\ filtered.op = "applyMedianFilter" /\ filtered.kernelSize = 3
    /\ filtered.outcome.status = "returned"
    /\ imageData.width = 3 /\ imageData.height = 3
    /\ Channel(imageData, 0, 0, 3) # Channel(imageData, 1, 1, 3)
    /\ Channel(imageData, 1, 1, 3) # Channel(imageData, 2, 2, 3)
    /\ filtered.outcome.value.data # imageData.data

\* C15: for a w x h buffer and a pad size p >= 0, padImageData returns a
\* (w + 2p) x (h + 2p) buffer whose pixel (x, y) has the four channels of the
\* source pixel (clamp(x - p, 0, w - 1), clamp(y - p, 0, h - 1)), corners
\* included.
C15_EdgeClamp ==
    (filtered # None /\ filtered.op = "padImageData") =>
        LET p == filtered.padSize
            w == imageData.width
            h == imageData.height
            padded == filtered.outcome.value
        IN  /\ padded.width = w + 2 * p
            /\ padded.height = h + 2 * p
            /\ Len(padded.data) = (w + 2 * p) * (h + 2 * p) * 4
            /\ \A x \in 0..(w + 2 * p - 1), y \in 0..(h + 2 * p - 1), c \in 0..3 :
                  Channel(padded, x, y, c) =
                      Channel(imageData, Max(0, Min(x - p, w - 1)), Max(0, Min(y - p, h - 1)), c)

\* a 3x3 buffer whose four corner pixels differ from each other and from the
\* centre pixel has been padded by 2
C15_Witness ==
    /\ filtered # None /\ filtered.op = "padImageData" /\ filtered.padSize = 2
    /\ imageData.width = 3 /\ imageData.height = 3
    /\ Cardinality({ <<Channel(imageData, x, y, 0), Channel(imageData, x, y, 3)>> :
                        x \in {0, 2}, y \in {0, 2} }) = 4
    /\ Channel(filtered.outcome.value, 0, 0, 0) = Channel(imageData, 0, 0, 0)
    /\ Channel(filtered.outcome.value, 6, 6, 3) = Channel(imageData, 2, 2, 3)
    /\ Channel(filtered.outcome.value, 6, 0, 0) # Channel(filtered.outcome.value, 0, 6, 0)

\* C16: for a buffer of width and height at least 2 whose R, G and B are a
\* constant c at every pixel but one, applyMedianFilter with kernelSize 3
\* returns R = G = B = c at every pixel.
ConstantButOne(img, c, at) ==
    \A i \in 1..PixelCount(img) :
        i # at => \A ch \in 1..3 : img.data[(i - 1) * 4 + ch] = c

C16_MedianRemovesNoise ==
    ( /\ filtered # None /\ filtered.op = "applyMedianFilter" /\ filtered.kernelSize = 3
      /\ imageData.width >= 2 /\ imageData.height >= 2 )
    => \A c \in 0..255, at \in 1..PixelCount(imageData) :
          ConstantButOne(imageData, c, at) =>
              /\ filtered.outcome.status = "returned"
              /\ \A i \in 1..PixelCount(imageData), ch \in 1..3 :
                    filtered.outcome.value.data[(i - 1) * 4 + ch] = c

\* the median filter of size 3 has run on a 2x2 buffer whose corner pixel
\* is brighter than the three others in one channel and darker in another
C16_Witness ==
    /\ filtered # None /\ filtered.op = "applyMedianFilter" /\ filtered.kernelSize = 3
    /\ filtered.outcome.status = "returned"
    /\ imageData.width = 2 /\ imageData.height = 2
    /\ ConstantButOne(imageData, 100, 1)
    /\ Channel(imageData, 0, 0, 0) > 100
    /\ Channel(imageData, 0, 0, 1) < 100
    /\ Channel(filtered.outcome.value, 0, 0, 0) = 100

\* C17: for a layer above 250,000 pixels, whenever the worker path of a
\* handler invocation fails (no worker, an ERROR response, the timeout) the
\* invocation goes on to make the in-process call with the image and
\* parameters of its message and passes its result to updateLayer; and onError
\* is called for an invocation that built a message only when its in-process
\* call threw.
FellBack(c) ==
    /\ calls[c].pc = "done" /\ calls[c].message # None
    /\ calls[c].inProcess = InProcessCall(calls[c].message)
    /\ calls[c].inProcess.status = "returned" => calls[c].updated = calls[c].inProcess
    /\ calls[c].inProcess.status = "thrown" => calls[c].updated = None

C17_FallbackOnWorkerFailure ==
    /\ \A c \in Calls : (calls[c].failure # "") ~> FellBack(c)
    /\ [](\A i \in 1..Len(errors) :
            calls[errors[i].call].message # None =>
                calls[errors[i].call].inProcess.status = "thrown")

\* a request on a worker has timed out and the invocation has updated the
\* layer with the result of its in-process call
C17_Witness ==
    \E c \in DOMAIN calls :
        /\ calls[c].failure = "timeout" /\ calls[c].pc = "done"
        /\ shouldUseWorker(calls[c].message.imageData)
        /\ calls[c].inProcess.status = "returned"
        /\ calls[c].updated = calls[c].inProcess
        /\ layer = calls[c].inProcess.value

\* C18: for every message a handler builds (kernel, median, gaussian,
\* laplacian; kernelSize 0 and sigma 0 included), the worker answers with an
\* image exactly when the in-process call returns one, and the two images
\* are equal.
C18_WorkerEqualsInProcess ==
    (response # None /\ fallback # None) =>
        /\ response.type = "SUCCESS" <=> fallback.status = "returned"
        /\ response.type = "SUCCESS" => response.imageData = fallback.value

\* C19: blendLayers called with a layer list without a visible layer (empty,
\* or every layer hidden) returns a buffer of the canvas width and height in
\* which every byte, alpha included, is 0.
C19_NoVisibleLayerTransparent ==
    (blended # None /\ \A i \in 1..Len(layers) : ~layers[i].visible) =>
        /\ blended.status = "returned"
        /\ blended.value.width = canvas.width
        /\ blended.value.height = canvas.height
        /\ Len(blended.value.data) = canvas.width * canvas.height * 4
        /\ \A k \in 1..Len(blended.value.data) : blended.value.data[k] = 0

\* two hidden 2x2 layers of full opacity with an opaque white pixel have been
\* blended onto a 2x2 canvas
C19_Witness ==
    /\ blended # None /\ blended.status = "returned"
    /\ Len(layers) = 2 /\ canvas.width = 2 /\ canvas.height = 2
    /\ \A i \in 1..2 :
          /\ ~layers[i].visible /\ layers[i].opacity = 100
          /\ layers[i].imageData.width = 2 /\ layers[i].imageData.height = 2
          /\ Channel(layers[i].imageData, 1, 0, 0) = 255
          /\ Channel(layers[i].imageData, 1, 0, 3) = 255

\* C20: in blendLayers a visible layer of lw x lh pixels affects only the
\* output pixels with x < lw and y < lh, where it is read at (x, y): an output
\* pixel outside every visible layer is [0,0,0,0]; an output pixel outside a
\* visible layer is what blendLayers gives without that layer; an output
\* pixel inside exactly one visible layer has that layer's R, G, B at (x, y)
\* and its alpha scaled by the layer's opacity.
Covers(each, x, y) == x < each.imageData.width /\ y < each.imageData.height

PixelAt(img, x, y) ==
    << Channel(img, x, y, 0), Channel(img, x, y, 1), Channel(img, x, y, 2),
       Channel(img, x, y, 3) >>

RemoveAt(seq, i) == SubSeq(seq, 1, i - 1) \o SubSeq(seq, i + 1, Len(seq))

C20_LayerBounds ==
    blended # None =>
        /\ blended.status = "returned"
        /\ \A x \in 0..(canvas.width - 1), y \in 0..(canvas.height - 1) :
              LET covering == { i \in 1..Len(layers) :
                                  layers[i].visible /\ Covers(layers[i], x, y) }
              IN  /\ covering = {} => PixelAt(blended.value, x, y) = <<0, 0, 0, 0>>
                  /\ \A i \in 1..Len(layers) :
                        (layers[i].visible /\ ~Covers(layers[i], x, y)) =>
                            PixelAt(blended.value, x, y) =
                                PixelAt(blendLayers(RemoveAt(layers, i),
                                            canvas.width, canvas.height).value, x, y)
                  /\ \A i \in covering :
                        covering = {i} =>
                            LET own == PixelAt(layers[i].imageData, x, y)
                            IN  PixelAt(blended.value, x, y) =
                                    << own[1], own[2], own[3],
                                       Round(own[4] * layers[i].opacity, 100) >>

\* a visible 1x2 layer of half opacity over a visible 2x2 layer has been
\* blended onto a 3x2 canvas: the third column is outside both layers, the
\* second column inside the lower layer only
C20_Witness ==
    /\ blended # None /\ blended.status = "returned"
    /\ canvas.width = 3 /\ canvas.height = 2
    /\ Len(layers) = 2 /\ layers[1].visible /\ layers[2].visible
    /\ layers[1].imageData.width = 2 /\ layers[1].imageData.height = 2
    /\ layers[2].imageData.width = 1 /\ layers[2].imageData.height = 2
    /\ layers[1].opacity = 100 /\ layers[2].opacity = 50
    /\ PixelAt(layers[1].imageData, 1, 1) # <<0, 0, 0, 0>>
    /\ PixelAt(blended.value, 1, 1) = PixelAt(layers[1].imageData, 1, 1)
    /\ PixelAt(blended.value, 0, 0) # PixelAt(layers[1].imageData, 0, 0)
    /\ PixelAt(blended.value, 2, 1) = <<0, 0, 0, 0>>

\* C21: for every base and overlay colour, blend mode and opacity,
\* blendColors returns the alpha Math.round(max(baseAlpha, overlayAlpha *
\* opacity)), which lies in 0..255 and is not below the base alpha, and
\* three colour channels in 0..255.
C21_AlphaIsMaxAndInRange ==
    mixed # None =>
        /\ mixed.status = "returned"
        /\ \A c \in 1..4 : mixed.value[c] \in 0..255
        /\ mixed.value[4] >= colors.base[4]
        /\ LET \* 100 * max(baseAlpha, overlayAlpha * opacity)
               alpha == Max(100 * colors.base[4], colors.overlay[4] * colors.opacity)
           IN  100 * mixed.value[4] - 50 <= alpha /\ alpha < 100 * mixed.value[4] + 50

\* an overlay of alpha 127 at half opacity has been blended onto a base of
\* alpha 128 and onto a base of alpha 1: the alpha stays 128, and becomes 64
C21_Witness ==
    /\ mixed # None /\ mixed.status = "returned"
    /\ colors.overlay[4] = 127 /\ colors.opacity = 50 /\ colors.mode = "overlay"
    /\ \/ colors.base[4] = 128 /\ mixed.value[4] = 128
       \/ colors.base[4] = 1 /\ mixed.value[4] = 64

\* C22: every pixel (x, y) of nearestNeighbor's output is a copy of the four
\* channels of the source pixel at (min(floor(x * srcW / dstW), srcW - 1),
\* min(floor(y * srcH / dstH), srcH - 1)), and the output has the
\* destination size.
C22_NearestCopiesFloorPixel ==
    (resized.status = "returned" /\ resized.method = "nearest") =>
        /\ resized.value.width = resized.destWidth
        /\ resized.value.height = resized.destHeight
        /\ Len(resized.value.data) = 4 * resized.destWidth * resized.destHeight
        /\ \A x \in 0..(resized.destWidth - 1), y \in 0..(resized.destHeight - 1) :
              LET srcX == Min((x * imageData.width) \div resized.destWidth,
                              imageData.width - 1)
                  srcY == Min((y * imageData.height) \div resized.destHeight,
                              imageData.height - 1)
              IN  \A c \in 0..3 :
                      Channel(resized.value, x, y, c) = Channel(imageData, srcX, srcY, c)

\* C23: xyzToRGB returns three integer channels in 0..255 for every XYZ
\* colour, also after rgbToXYZ; a channel whose linear value (the row of the
\* matrix applied to the colour) is below 0 comes out as 0, and one whose
\* linear value is above 1 comes out as 255.
LinearBelowGamut(product) == product[1] < 0

LinearAboveGamut(product) == product[1] > 100000 \/ (product[1] = 100000 /\ product[2] > 0)

C23_ClipsToRange ==
    rgbBack # None =>
        /\ rgbBack.status = "returned"
        /\ rgbBack.value.r \in 0..255 /\ rgbBack.value.g \in 0..255
        /\ rgbBack.value.b \in 0..255
        /\ LET channels == <<rgbBack.value.r, rgbBack.value.g, rgbBack.value.b>>
           IN  \A i \in 1..3 :
                  LET linear == MatrixProduct(XyzToRgbMatrix[i], xyzColor)
                  IN  /\ LinearBelowGamut(linear) => channels[i] = 0
                      /\ LinearAboveGamut(linear) => channels[i] = 255

\* the alpha values of a pixel buffer, pixel by pixel
Alphas(img) == [i \in 1..(Len(img.data) \div 4) |-> img.data[4 * i]]

\* C24: no transform modifies a buffer it is given.  When applyKernelFilter,
\* applyMedianFilter, applyLaplacianFilter, applyGaussianBlur,
\* applyLookupTable, nearestNeighbor, bilinearInterpolation, blendLayers or
\* encodeGB7 ends, every buffer that was on the heap before the call holds
\* the bytes it held; when it returns, the buffer returned is one that was
\* not on the heap before; and applyLookupTable without an alpha table
\* returns a buffer whose alpha values are those of the buffer given.
C24_TransformsLeaveTheirInputs ==
    [][(pc = "transform" /\ pc' = "done") =>
        /\ \A r \in 1..Len(heap) : heap'[r] = heap[r]
        /\ returned'.status = "returned" =>
            /\ returned'.ref \notin 1..Len(heap)
            /\ (transform.fn = "applyLookupTable" /\ "alpha" \notin DOMAIN transform.luts) =>
                    Alphas(heap'[returned'.ref]) = Alphas(heap[transform.ref])]_vars

\* applyLookupTable without an alpha table has returned a buffer that
\* differs from the one it was given
C24_Witness ==
    /\ pc = "done" /\ returned.status = "returned"
    /\ transform.fn = "applyLookupTable" /\ "alpha" \notin DOMAIN transform.luts
    /\ heap[returned.ref].data # heap[transform.ref].data

\* C25: an applyFilter call that a worker's response settles is settled by
\* the response to its own message, never by the response to the message
\* of another request, also when an earlier request on the worker timed out
\* and its response arrives after the worker was handed on.
C25_SettledByOwnResponse ==
    \A c \in DOMAIN calls : calls[c].responseTo # 0 => calls[c].responseTo = c

\* C26: the pool never holds more than maxWorkers workers, and maxWorkers
\* is at most 8.
C26_PoolWithinMaxWorkers ==
    (pc = "handlers") => (Len(workers) <= maxWorkers /\ maxWorkers <= 8)

\* an applyFilter call that has its worker and has not left its finally block
Holding(c) == calls[c].worker # 0 /\ calls[c].pc \in {"gotWorker", "await", "finally"}

\* C27: a worker is held by at most one unsettled applyFilter call, every
\* busy worker is a worker of the pool, and a worker is busy only while an
\* unsettled call holds it: once the call has settled, by success, ERROR
\* response or timeout, it no longer marks the worker busy.
C27_BusyIsHeldByOne ==
    (pc = "handlers") =>
        /\ \A c, d \in DOMAIN calls :
                (c # d /\ Holding(c) /\ Holding(d)) => calls[c].worker # calls[d].worker
        /\ busyWorkers \subseteq { workers[i] : i \in 1..Len(workers) }
        /\ \A w \in busyWorkers : \E c \in DOMAIN calls : Holding(c) /\ calls[c].worker = w

\* a call has settled, one with each outcome, and the worker of a settled
\* call is held by a later call
C27_Witness ==
    /\ pc = "handlers"
    /\ \E c, d \in DOMAIN calls :
            /\ c # d /\ calls[c].pc \in {"fallback", "update", "done"}
            /\ calls[c].failure \in {"timeout", "error response"}
            /\ Holding(d) /\ calls[d].worker = calls[c].worker
            /\ calls[c].worker \in busyWorkers

\* the single call queued is deleteLayer of the active layer
DeletesActiveLayer ==
    /\ Len(queuedLayers) = 1 /\ queuedLayers[1].op = "delete"
    /\ queuedLayers[1].id = activeLayerId
    /\ \A i \in 1..Len(queuedActive) : queuedActive[i].by = "deleteLayer"

\* C28: whenever the editor has rendered the calls made so far,
\* activeLayerId is null or the id of a layer of the list; and a render
\* after deleteLayer of the active layer leaves the last layer of the
\* remaining list active, or null when none remains.
C28_ActiveLayerExists ==
    [][(pc = "editor" /\ queuedLayers' = << >> /\ queuedActive' = << >>) =>
        /\ activeLayerId' = NullId
                \/ \E i \in 1..Len(editorLayers') : editorLayers'[i] = activeLayerId'
        /\ DeletesActiveLayer =>
                /\ editorLayers' = DeleteFrom(editorLayers, activeLayerId)
                /\ activeLayerId' = LastOrNull(editorLayers')]_vars

\* C29: createLookupTable does not depend on the order of its two points:
\* the table of (point1, point2) equals, at every index, the table of
\* (point2, point1), also when the two inputs are equal.
C29_OrderOfPointsIrrelevant ==
    (pc = "done" /\ lut.status = "returned") =>
        \A i \in 0..255 : lut.value[i] = createLookupTable(point2, point1)[i]

\* the alpha accumulated at (x, y) once the first n visible layers are folded in
AlphaAfter(n, x, y) ==
    BlendPixel(SubSeq(VisibleLayers(layers), 1, n), 1, x, y, <<0, 0, 0, 0>>)[4]

\* C30: in blendLayers the alpha accumulated at a pixel never decreases as
\* further visible layers are folded in, and when a single layer is visible,
\* has opacity 100 and covers the whole canvas, every output pixel holds
\* the four bytes of the layer's pixel at the same position, whatever the
\* layer's blend mode.
C30_AlphaGrowsAndSingleLayerCopied ==
    (blended # None /\ blended.status = "returned") =>
        /\ \A x \in 0..(canvas.width - 1), y \in 0..(canvas.height - 1) :
              /\ \A n \in 1..Len(VisibleLayers(layers)) :
                    AlphaAfter(n - 1, x, y) <= AlphaAfter(n, x, y)
              /\ AlphaAfter(Len(VisibleLayers(layers)), x, y) = PixelAt(blended.value, x, y)[4]
        /\ (/\ Len(VisibleLayers(layers)) = 1
            /\ VisibleLayers(layers)[1].opacity = 100
            /\ VisibleLayers(layers)[1].imageData.width >= canvas.width
            /\ VisibleLayers(layers)[1].imageData.height >= canvas.height) =>
                \A x \in 0..(canvas.width - 1), y \in 0..(canvas.height - 1) :
                    PixelAt(blended.value, x, y) =
                        PixelAt(VisibleLayers(layers)[1].imageData, x, y)

\* two visible layers have been blended and, at some pixel, the second one
\* was folded in by blendColors and raised the accumulated alpha
C30_Witness ==
    /\ blended # None /\ blended.status = "returned"
    /\ Len(VisibleLayers(layers)) = 2
    /\ \E x \in 0..(canvas.width - 1), y \in 0..(canvas.height - 1) :
            /\ 0 < AlphaAfter(1, x, y)
            /\ AlphaAfter(1, x, y) < AlphaAfter(2, x, y)

\* a single visible layer of opacity 100 and a blend mode other than normal
\* that covers the canvas has been blended, below a hidden layer
C30_SingleLayerReached ==
    /\ blended # None /\ blended.status = "returned"
    /\ Len(layers) = 2 /\ layers[1].visible /\ ~layers[2].visible
    /\ layers[1].opacity = 100 /\ layers[1].blendMode = "multiply"
    /\ layers[1].imageData.width = canvas.width
    /\ layers[1].imageData.height = canvas.height

====
